---- MODULE Spec2Model ----
(***************************************************************************)
(* State-machine model of the client-side adaptive playback control loop   *)
(* of zozo-player: the bounded-retry error-recovery controller             *)
(* (src/src/hooks/useErrorRecovery.ts), the playback health monitor        *)
(* (src/src/hooks/useHealthMonitor.ts), the bandwidth estimator            *)
(* (src/unnamed/part_001, useRealBandwidth) and the adaptive-bitrate       *)
(* engine (src/src/hooks/useAdaptiveBitrate.ts).                           *)
(*                                                                         *)
(* Time is the value of Date.now().  A timer is modelled by its deadline;  *)
(* it fires when the clock reads its deadline, and the clock never skips a *)
(* live deadline.  A React state cell is modelled by the value it holds    *)
(* after all queued updaters have been applied.                            *)
(***************************************************************************)
EXTENDS Integers, Naturals, Sequences, FiniteSets, TLC

VARIABLES
    now,            \* Date.now()
    \* ---- useErrorRecovery ----
    erConfig,       \* RetryConfig passed to the hook
    errorState,     \* the errorState cell of useState
    erView,         \* the fields of errorState that the closures of the last
                    \* render captured and read
    retryTimer,     \* live timer behind retryTimeoutRef, or None
    globalTimer,    \* live timer behind globalTimeoutRef, or None
    attempts,       \* one record per attemptRecovery call (its promise)
    erMounted,      \* FALSE once the unmount cleanup has run
    erTimedOut,     \* history: the episode hit the global timeout, no reset() since
    erRecorded,     \* history: recordError calls since the last reset() or success
    erInvoked,      \* history: recoveryFn calls since the last reset() or success
    erStopped,      \* history: reset() or forceStop() was the caller's last call
    \* ---- useHealthMonitor ----
    hmConfig,       \* HealthMonitorConfig in use
    hmStable,       \* the caller passes the same config object on every render
                    \* (FALSE: the default parameter, a new object per render)
    hmMounted,      \* the hook is mounted
    video,          \* the video element as the monitor last read it
    health,         \* the health cell of useState
    lastTimeRef,    \* video position at the previous tick (ms)
    lastCheckRef,   \* Date.now() at the previous tick
    stalledSinceRef,          \* start of the open stall episode, 0 for null
    totalBufferingTimeRef,    \* ms
    stallCountRef,
    hmInterval,     \* the monitorInterval timer, or None
    \* ---- useRealBandwidth ----
    bwMounted,      \* the hook is mounted
    bwObserver,     \* a PerformanceObserver is connected
    samplesRef,     \* the window of samples, oldest first
    bandwidth,      \* the bandwidth cell of useState
    bwInterval,     \* the 2-second interval, or None
    bwCallbacks,    \* history: number of observer callbacks so far
    \* ---- useAdaptiveBitrate ----
    abrConfig,      \* ABRConfig in use
    abrStable,      \* the caller passes the same config object on every render
                    \* (FALSE: the default parameter, a new object per render)
    abrMounted,     \* the hook is mounted
    abrProps,       \* currentBandwidth, bufferLevel, healthScore of the last render
    gateBandwidth,  \* the currentBandwidth that shouldSwitch closes over
    abrState,       \* the abrState cell of useState
    lastSwitchTimeRef,
    switchCountRef,
    stableCountRef,
    adaptationTimer,    \* live timer behind adaptationTimerRef, or None
    abrInterval,        \* the checkInterval timer, or None
    abrEffectQuality,   \* abrState.currentQuality at the last run of the effect
    abrRenderDue,       \* a state update has not been rendered yet
    abrInputs,      \* history: argument changes and manual calls so far
    abrCandidate    \* history: the optimalQuality of the last decision tick

erVars == <<erConfig, errorState, erView, retryTimer, globalTimer, attempts,
            erMounted, erTimedOut, erRecorded, erInvoked, erStopped>>

hmVars == <<hmConfig, hmStable, hmMounted, video, health, lastTimeRef, lastCheckRef,
            stalledSinceRef, totalBufferingTimeRef, stallCountRef, hmInterval>>

bwVars == <<bwMounted, bwObserver, samplesRef, bandwidth, bwInterval, bwCallbacks>>

abrVars == <<abrConfig, abrStable, abrMounted, abrProps, gateBandwidth, abrState,
             lastSwitchTimeRef, switchCountRef, stableCountRef, adaptationTimer,
             abrInterval, abrEffectQuality, abrRenderDue, abrInputs, abrCandidate>>

nonErVars == <<hmVars, bwVars, abrVars>>

nonHmVars == <<erVars, bwVars, abrVars>>

nonBwVars == <<erVars, hmVars, abrVars>>

nonAbrVars == <<erVars, hmVars, bwVars>>

vars == <<now, erVars, hmVars, bwVars, abrVars>>

None == [live |-> FALSE]

StartTime == 1000 * 1000

\* ------------------------------------------------------------------ bounds
MaxErrors == 3
MaxAttempts == 2
ErMaxElapsed == 5
BackoffMaxErrors == 7
BackoffMaxElapsed == 12000
HmMaxElapsed == 4000
ScoreMaxElapsed == 1000
ResetMaxElapsed == 2000
ResetMaxErrors == 2
BwMaxCallbacks == 3
BwMaxElapsed == 6000
WindowMaxCallbacks == 3
WindowMaxElapsed == 32000
StaleMaxCallbacks == 3
StaleMaxElapsed == 32000
LiveMaxBuffering == 2000
LiveMaxStableTicks == 3
AbrMaxInputs == 2
AbrMaxElapsed == 9000
GateMaxElapsed == 3000

\* ----------------------------------------------------------- configuration
DefaultRetryConfig ==
    [maxRetries |-> 5, baseDelay |-> 100, maxDelay |-> 10000, globalTimeout |-> 30000]

SmallRetryConfig ==
    [maxRetries |-> 2, baseDelay |-> 1, maxDelay |-> 2, globalTimeout |-> 3]

\* a caller-supplied configuration that allows a single retry
SingleRetryConfig ==
    [maxRetries |-> 1, baseDelay |-> 1, maxDelay |-> 2, globalTimeout |-> 3]

\* Math.random(), in thousandths: a value of [0, 1)
RandomValues == {0, 250, 500, 750, 999}

\* the strings recordError is called with
ErrorTexts == {"network"}

\* what a failing recovery action throws: an Error with a message, or a non-Error
Thrown == {"Error:reload failed", "nonError"}

RECURSIVE Pow2(_)
Pow2(n) == IF n = 0 THEN 1 ELSE 2 * Pow2(n - 1)

Min(a, b) == IF a < b THEN a ELSE b

InitialErrorState(cfg) ==
    [errorCount |-> 0, lastError |-> "null", isRecovering |-> FALSE,
     nextRetryDelay |-> cfg.baseDelay, recoveryStartTime |-> 0]

\* mutant of exponentialDelay: the delay is not capped by maxDelay
exponentialDelay_Uncapped(cfg, attemptNumber) ==
    cfg.baseDelay * Pow2(attemptNumber)

\* Math.min(baseDelay * 2^attemptNumber, maxDelay)
exponentialDelay(cfg, attemptNumber) ==
    Min(cfg.baseDelay * Pow2(attemptNumber), cfg.maxDelay)

\* mutant of calculateBackoff: the jitter is not scaled by 0.25
calculateBackoff_FullJitter(cfg, attemptNumber, r) ==
    LET e == exponentialDelay(cfg, attemptNumber)
    IN  (1000 * e + e * (r - 500) + 500) \div 1000

\* Math.round(e + e * 0.25 * (Math.random() - 0.5)), with Math.random() = r/1000;
\* Math.round(x) is floor(x + 1/2)
calculateBackoff(cfg, attemptNumber, r) ==
    LET e == exponentialDelay(cfg, attemptNumber)
    IN  (4000 * e + e * (r - 500) + 2000) \div 4000

\* what attemptRecovery and canRetry read of the errorState they close over
Captured(st) ==
    [errorCount |-> st.errorCount, nextRetryDelay |-> st.nextRetryDelay,
     recoveryStartTime |-> st.recoveryStartTime]

canRetry == erView.errorCount < erConfig.maxRetries

\* err instanceof Error ? err.message : 'Unknown error'
FailureMessage(thrown) ==
    IF thrown = "nonError" THEN "Unknown error" ELSE "reload failed"

\* prev.recoveryStartTime || Date.now()
OrNow(t) == IF t # 0 THEN t ELSE now

\* resolve() / reject() of a promise: only the first settlement counts
Settle(outcome, to) == IF outcome = "pending" THEN to ELSE outcome

\* the record of a promise returned by attemptRecovery
NewAttempt(acc) ==
    [outcome |-> IF acc THEN "pending" ELSE "rejected",
     accepted |-> acc,        \* passed both ceilings
     invoked |-> 0,           \* number of calls of recoveryFn
     running |-> FALSE,       \* recoveryFn was called and has not settled
     cancelled |-> FALSE]     \* history: a later call cleared its timers

\* history: the attempts whose timers a call clears while they are unsettled
Cancelled(atts) ==
    [i \in DOMAIN atts |->
       IF atts[i].outcome = "pending" THEN [atts[i] EXCEPT !.cancelled = TRUE]
       ELSE atts[i]]

\* mutant of MaxRetriesExceeded: the comparison is off by one
MaxRetriesExceeded_OffByOne == erView.errorCount > erConfig.maxRetries

\* if (errorState.errorCount >= config.maxRetries)
MaxRetriesExceeded == erView.errorCount >= erConfig.maxRetries

\* elapsed > config.globalTimeout, elapsed counted from
\* errorState.recoveryStartTime || Date.now()
GlobalTimeoutExceeded ==
    now - OrNow(erView.recoveryStartTime) > erConfig.globalTimeout

\* mutant of recordError: every error restarts the recovery clock
recordError_Restamps(error, r) ==
    /\ erMounted
    /\ LET newCount == errorState.errorCount + 1
       IN  errorState' =
             [errorCount |-> newCount,
              lastError |-> error,
              isRecovering |-> FALSE,
              nextRetryDelay |-> calculateBackoff(erConfig, newCount, r),
              recoveryStartTime |-> now]
    /\ UNCHANGED <<nonErVars, now, erConfig, erView, retryTimer, globalTimer, attempts,
                   erMounted, erTimedOut>>
    /\ erRecorded' = erRecorded + 1
    /\ UNCHANGED erInvoked
    /\ erStopped' = FALSE

\* ------------------------------------------------ useErrorRecovery: actions
\* recordError(error); r is the value Math.random() returns inside calculateBackoff
recordError(error, r) ==
    /\ erMounted
    /\ LET newCount == errorState.errorCount + 1
       IN  errorState' =
             [errorCount |-> newCount,
              lastError |-> error,
              isRecovering |-> FALSE,
              nextRetryDelay |-> calculateBackoff(erConfig, newCount, r),
              recoveryStartTime |-> OrNow(errorState.recoveryStartTime)]
    /\ UNCHANGED <<nonErVars, now, erConfig, erView, retryTimer, globalTimer, attempts,
                   erMounted, erTimedOut>>
    /\ erRecorded' = erRecorded + 1
    /\ UNCHANGED erInvoked
    /\ erStopped' = FALSE

\* the state an accepted attemptRecovery call leaves
AcceptedErrorState ==
    [errorState EXCEPT !.isRecovering = TRUE,
                       !.recoveryStartTime = OrNow(errorState.recoveryStartTime)]

\* the retry timer an accepted attemptRecovery call arms
ArmedRetryTimer(id) ==
    [live |-> TRUE, id |-> id, due |-> now + erView.nextRetryDelay]

\* the global-timeout guard an accepted attemptRecovery call arms
ArmedGlobalTimer(id) ==
    [live |-> TRUE, id |-> id, due |-> now + erConfig.globalTimeout]

\* attemptRecovery(recoveryFn): the body of the promise executor
attemptRecovery ==
    /\ erMounted
    /\ LET id == Len(attempts) + 1
       IN  IF MaxRetriesExceeded
           THEN /\ errorState' = [errorState EXCEPT !.isRecovering = FALSE]
                /\ attempts' = Append(attempts, NewAttempt(FALSE))
                /\ UNCHANGED <<retryTimer, globalTimer, erTimedOut>>
           ELSE IF GlobalTimeoutExceeded
           THEN /\ errorState' = [errorState EXCEPT !.isRecovering = FALSE]
                /\ attempts' = Append(attempts, NewAttempt(FALSE))
                /\ erTimedOut' = TRUE
                /\ UNCHANGED <<retryTimer, globalTimer>>
           ELSE /\ errorState' = AcceptedErrorState
                /\ globalTimer' = ArmedGlobalTimer(id)
                /\ retryTimer' = ArmedRetryTimer(id)
                /\ attempts' = Append(Cancelled(attempts), NewAttempt(TRUE))
                /\ UNCHANGED erTimedOut
    /\ UNCHANGED <<nonErVars, now, erConfig, erView, erMounted, erRecorded, erInvoked>>
    /\ erStopped' = FALSE

\* React has rendered every state update made so far.  A render that is due
\* is flushed before the next timer callback or promise continuation runs.
ErRendered == erMounted => erView = Captured(errorState)

\* the retry timer fires: the callback calls recoveryFn and awaits it
RetryTimerFires ==
    /\ ErRendered
    /\ retryTimer.live
    /\ retryTimer.due <= now
    /\ retryTimer' = None
    /\ attempts' = [attempts EXCEPT ![retryTimer.id] =
                      [@ EXCEPT !.invoked = @ + 1, !.running = TRUE]]
    /\ UNCHANGED <<nonErVars, now, erConfig, errorState, erView, globalTimer, erMounted, erTimedOut,
                   erRecorded, erStopped>>
    /\ erInvoked' = erInvoked + 1

\* mutant of RecoverySucceeds: the episode clock is not cleared
RecoverySucceeds_KeepsClock(i) ==
    /\ ErRendered
    /\ i \in 1..Len(attempts)
    /\ attempts[i].running
    /\ globalTimer' = None
    /\ errorState' = [InitialErrorState(erConfig) EXCEPT
                        !.recoveryStartTime = errorState.recoveryStartTime]
    /\ attempts' = [attempts EXCEPT ![i] =
                      [@ EXCEPT !.running = FALSE, !.outcome = Settle(@, "resolved")]]
    /\ UNCHANGED <<nonErVars, now, erConfig, erView, retryTimer, erMounted, erTimedOut, erStopped>>
    /\ erRecorded' = 0
    /\ erInvoked' = 0

\* await recoveryFn() returns: the success path of the retry callback of attempt i
RecoverySucceeds(i) ==
    /\ ErRendered
    /\ i \in 1..Len(attempts)
    /\ attempts[i].running
    /\ globalTimer' = None
    /\ errorState' = InitialErrorState(erConfig)
    /\ attempts' = [attempts EXCEPT ![i] =
                      [@ EXCEPT !.running = FALSE, !.outcome = Settle(@, "resolved")]]
    /\ UNCHANGED <<nonErVars, now, erConfig, erView, retryTimer, erMounted, erTimedOut, erStopped>>
    /\ erRecorded' = 0
    /\ erInvoked' = 0

\* mutant of RecoveryFails: the failure is counted as one more error
RecoveryFails_Counts(i, thrown) ==
    /\ ErRendered
    /\ i \in 1..Len(attempts)
    /\ attempts[i].running
    /\ globalTimer' = None
    /\ errorState' = [errorState EXCEPT !.isRecovering = FALSE,
                                        !.lastError = FailureMessage(thrown),
                                        !.errorCount = @ + 1]
    /\ attempts' = [attempts EXCEPT ![i] =
                      [@ EXCEPT !.running = FALSE, !.outcome = Settle(@, "rejected")]]
    /\ UNCHANGED <<nonErVars, now, erConfig, erView, retryTimer, erMounted, erTimedOut, erRecorded, erInvoked,
                   erStopped>>

\* await recoveryFn() throws: the catch path of the retry callback of attempt i
RecoveryFails(i, thrown) ==
    /\ ErRendered
    /\ i \in 1..Len(attempts)
    /\ attempts[i].running
    /\ globalTimer' = None
    /\ errorState' = [errorState EXCEPT !.isRecovering = FALSE,
                                        !.lastError = FailureMessage(thrown)]
    /\ attempts' = [attempts EXCEPT ![i] =
                      [@ EXCEPT !.running = FALSE, !.outcome = Settle(@, "rejected")]]
    /\ UNCHANGED <<nonErVars, now, erConfig, erView, retryTimer, erMounted, erTimedOut, erRecorded, erInvoked,
                   erStopped>>

\* the global-timeout guard fires
GlobalTimeoutFires ==
    /\ ErRendered
    /\ globalTimer.live
    /\ globalTimer.due <= now
    /\ globalTimer' = None
    /\ errorState' = [errorState EXCEPT !.isRecovering = FALSE,
                                        !.lastError = "Timeout global"]
    /\ attempts' = [attempts EXCEPT ![globalTimer.id] =
                      [@ EXCEPT !.outcome = Settle(@, "rejected")]]
    /\ erTimedOut' = TRUE
    /\ UNCHANGED <<nonErVars, now, erConfig, erView, retryTimer, erMounted, erRecorded, erInvoked, erStopped>>

\* reset()
reset ==
    /\ erMounted
    /\ retryTimer' = None
    /\ globalTimer' = None
    /\ errorState' = InitialErrorState(erConfig)
    /\ erTimedOut' = FALSE
    /\ attempts' = Cancelled(attempts)
    /\ UNCHANGED <<nonErVars, now, erConfig, erView, erMounted>>
    /\ erRecorded' = 0
    /\ erInvoked' = 0
    /\ erStopped' = TRUE

\* forceStop()
forceStop ==
    /\ erMounted
    /\ retryTimer' = None
    /\ globalTimer' = None
    /\ errorState' = [errorState EXCEPT !.isRecovering = FALSE]
    /\ attempts' = Cancelled(attempts)
    /\ UNCHANGED <<nonErVars, now, erConfig, erView, erMounted, erTimedOut, erRecorded, erInvoked>>
    /\ erStopped' = TRUE

\* the cleanup of the mount effect: both timers are cleared
ErUnmount ==
    /\ erMounted
    /\ erMounted' = FALSE
    /\ retryTimer' = None
    /\ globalTimer' = None
    /\ attempts' = Cancelled(attempts)
    /\ UNCHANGED <<nonErVars, now, erConfig, errorState, erView, erTimedOut, erRecorded, erInvoked>>
    /\ erStopped' = FALSE

\* React renders the hook again: its closures capture the current errorState
ErRender ==
    /\ erMounted
    /\ erView # Captured(errorState)
    /\ erView' = Captured(errorState)
    /\ UNCHANGED <<nonErVars, now, erConfig, errorState, retryTimer, globalTimer, attempts,
                   erMounted, erTimedOut, erRecorded, erInvoked, erStopped>>

\* ======================================================================
\* useHealthMonitor
\* Buffer levels are in tenths of a second, dropped-frame rates in tenths of
\* a percent, video positions and times in ms.
\* ======================================================================
DefaultHealthConfig ==
    [checkInterval |-> 1000, stallThreshold |-> 2000,
     criticalBufferLevel |-> 10, warningBufferLevel |-> 30]

\* a caller-supplied configuration whose stall threshold is below its period
QuickStallConfig ==
    [checkInterval |-> 1000, stallThreshold |-> 500,
     criticalBufferLevel |-> 10, warningBufferLevel |-> 30]

\* what a tick can read from the video element
ProgressValues == {-1000, 0, 1000}
BufferLevels == {-10, 7, 40, 60}
DroppedFrameRates == {0, 30, 1500}

\* the same, with the values on both sides of every tier boundary
ScoreBufferLevels == {-10, 3, 4, 5, 9, 10, 29, 30, 49, 50, 60}
ScoreDroppedFrameRates == {0, 5, 6, 20, 21, 50, 51, 60, 1500}
ScoreStallCounts == {0, 1, 2, 4, 5, 8, 9}
ScoreBufferingTimes == {0, 150, 151, 300, 301, 400}

InitialHealth ==
    [score |-> 100, level |-> "excellent", issues |-> {}, recommendations |-> {},
     stallCount |-> 0, bufferingTime |-> 0, lastStallTime |-> 0]

InitialVideo ==
    [currentTime |-> 0, paused |-> TRUE, bufferLevel |-> 0, droppedFrameRate |-> 0]

Max(a, b) == IF a > b THEN a ELSE b

\* bufferingTime / (Date.now() - lastCheckRef.current) compared with 0.3 and
\* 0.15; a zero divisor gives Infinity (or NaN for 0 / 0, which compares false)
BufferingPenalty(bufferingTime, elapsed) ==
    IF elapsed = 0 THEN (IF bufferingTime > 0 THEN 10 ELSE 0)
    ELSE IF 10 * bufferingTime > 3 * elapsed THEN 10
    ELSE IF 100 * bufferingTime > 15 * elapsed THEN 5
    ELSE 0

\* mutant of calculateScore: each stall costs 15 points and the result is
\* not clamped
calculateScore_Unclamped(bufferLevel, droppedFrameRate, stallCount, bufferingTime) ==
    100
    - (IF bufferLevel < 5 THEN 40
       ELSE IF bufferLevel < hmConfig.criticalBufferLevel THEN 25
       ELSE IF bufferLevel < hmConfig.warningBufferLevel THEN 15
       ELSE IF bufferLevel < 50 THEN 5 ELSE 0)
    - (IF droppedFrameRate > 50 THEN 30
       ELSE IF droppedFrameRate > 20 THEN 15
       ELSE IF droppedFrameRate > 5 THEN 5 ELSE 0)
    - 15 * stallCount
    - BufferingPenalty(bufferingTime, now - lastCheckRef)

\* mutant of calculateScore: the 5 s buffer tier is missing
calculateScore_NoOptimalTier(bufferLevel, droppedFrameRate, stallCount, bufferingTime) ==
    LET score ==
          100
          - (IF bufferLevel < 5 THEN 40
             ELSE IF bufferLevel < hmConfig.criticalBufferLevel THEN 25
             ELSE IF bufferLevel < hmConfig.warningBufferLevel THEN 15 ELSE 0)
          - (IF droppedFrameRate > 50 THEN 30
             ELSE IF droppedFrameRate > 20 THEN 15
             ELSE IF droppedFrameRate > 5 THEN 5 ELSE 0)
          - (IF stallCount > 8 THEN 20
             ELSE IF stallCount > 4 THEN 10
             ELSE IF stallCount > 1 THEN 5 ELSE 0)
          - BufferingPenalty(bufferingTime, now - lastCheckRef)
    IN  Max(0, Min(100, score))

\* calculateScore(bufferLevel, droppedFrameRate, stallCount, bufferingTime)
calculateScore(bufferLevel, droppedFrameRate, stallCount, bufferingTime) ==
    LET score ==
          100
          - (IF bufferLevel < 5 THEN 40
             ELSE IF bufferLevel < hmConfig.criticalBufferLevel THEN 25
             ELSE IF bufferLevel < hmConfig.warningBufferLevel THEN 15
             ELSE IF bufferLevel < 50 THEN 5 ELSE 0)
          - (IF droppedFrameRate > 50 THEN 30
             ELSE IF droppedFrameRate > 20 THEN 15
             ELSE IF droppedFrameRate > 5 THEN 5 ELSE 0)
          - (IF stallCount > 8 THEN 20
             ELSE IF stallCount > 4 THEN 10
             ELSE IF stallCount > 1 THEN 5 ELSE 0)
          - BufferingPenalty(bufferingTime, now - lastCheckRef)
    IN  Max(0, Min(100, score))

\* the level a score maps to
HealthLevel(score) ==
    IF score < 30 THEN "critical"
    ELSE IF score < 60 THEN "warning"
    ELSE IF score < 85 THEN "good"
    ELSE "excellent"

HealthIssues(bufferLevel, droppedFrameRate, stallCount, isStalled) ==
    (IF bufferLevel < hmConfig.criticalBufferLevel THEN {"Buffer critique"}
     ELSE IF bufferLevel < hmConfig.warningBufferLevel THEN {"Buffer faible"} ELSE {})
    \cup (IF droppedFrameRate > 20 THEN {"frames perdus"} ELSE {})
    \cup (IF stallCount > 2 THEN {"interruptions"} ELSE {})
    \cup (IF isStalled THEN {"Lecture interrompue"} ELSE {})

HealthRecommendations(bufferLevel, droppedFrameRate, stallCount) ==
    (IF bufferLevel < hmConfig.warningBufferLevel THEN {"Reduire la qualite"} ELSE {})
    \cup (IF droppedFrameRate > 20 THEN {"Fermer autres onglets"} ELSE {})
    \cup (IF stallCount > 3 THEN {"Verifier connexion reseau"} ELSE {})

\* the interval the effect of the monitor arms
ArmedHmInterval == [live |-> TRUE, due |-> now + hmConfig.checkInterval]

\* the video element is available: the effect starts the monitor interval
HmAttach ==
    /\ hmMounted
    /\ ~hmInterval.live
    /\ hmInterval' = ArmedHmInterval
    /\ UNCHANGED <<nonHmVars, now, hmConfig, hmStable, hmMounted, video, health, lastTimeRef,
                   lastCheckRef, stalledSinceRef, totalBufferingTimeRef, stallCountRef>>

\* mutant of HmTick: every stalled tick counts as a new stall
HmTick_CountsEveryTick(progress, paused, bufferLevel, droppedFrameRate) ==
    /\ hmMounted
    /\ hmInterval.live
    /\ hmInterval.due <= now
    /\ video.currentTime + progress >= 0
    /\ LET currentTime == video.currentTime + progress
           timeSinceLastCheck == now - lastCheckRef
           progressMade == currentTime - lastTimeRef
           isStalled == /\ ~paused
                        /\ progressMade = 0
                        /\ timeSinceLastCheck > hmConfig.stallThreshold
           stalledSince == IF isStalled
                           THEN (IF stalledSinceRef = 0 THEN now ELSE stalledSinceRef)
                           ELSE IF stalledSinceRef # 0 /\ progressMade > 0 THEN 0
                           ELSE stalledSinceRef
           stallCount == IF isStalled THEN stallCountRef + 1 ELSE stallCountRef
           bufferingTime == IF isStalled THEN totalBufferingTimeRef + timeSinceLastCheck
                            ELSE totalBufferingTimeRef
           score == calculateScore(bufferLevel, droppedFrameRate, stallCount, bufferingTime)
       IN  /\ video' = [currentTime |-> currentTime, paused |-> paused,
                        bufferLevel |-> bufferLevel, droppedFrameRate |-> droppedFrameRate]
           /\ stalledSinceRef' = stalledSince
           /\ stallCountRef' = stallCount
           /\ totalBufferingTimeRef' = bufferingTime
           /\ health' = [score |-> score,
                         level |-> HealthLevel(score),
                         issues |-> HealthIssues(bufferLevel, droppedFrameRate,
                                                 stallCount, isStalled),
                         recommendations |-> HealthRecommendations(bufferLevel,
                                                 droppedFrameRate, stallCount),
                         stallCount |-> stallCount,
                         bufferingTime |-> bufferingTime,
                         lastStallTime |-> stalledSince]
           /\ lastTimeRef' = currentTime
           /\ lastCheckRef' = now
    /\ hmInterval' = ArmedHmInterval
    /\ UNCHANGED <<nonHmVars, now, hmConfig, hmStable, hmMounted>>

\* one run of the monitorInterval callback; progress is how far the video
\* position moved since the monitor last read it, the other arguments are
\* what the element reports now
HmTick(progress, paused, bufferLevel, droppedFrameRate) ==
    /\ hmMounted
    /\ hmInterval.live
    /\ hmInterval.due <= now
    /\ video.currentTime + progress >= 0
    /\ LET currentTime == video.currentTime + progress
           timeSinceLastCheck == now - lastCheckRef
           progressMade == currentTime - lastTimeRef
           isStalled == /\ ~paused
                        /\ progressMade = 0
                        /\ timeSinceLastCheck > hmConfig.stallThreshold
           stalledSince == IF isStalled
                           THEN (IF stalledSinceRef = 0 THEN now ELSE stalledSinceRef)
                           ELSE IF stalledSinceRef # 0 /\ progressMade > 0 THEN 0
                           ELSE stalledSinceRef
           stallCount == IF isStalled /\ stalledSinceRef = 0 THEN stallCountRef + 1
                         ELSE stallCountRef
           bufferingTime == IF isStalled THEN totalBufferingTimeRef + timeSinceLastCheck
                            ELSE totalBufferingTimeRef
           score == calculateScore(bufferLevel, droppedFrameRate, stallCount, bufferingTime)
       IN  /\ video' = [currentTime |-> currentTime, paused |-> paused,
                        bufferLevel |-> bufferLevel, droppedFrameRate |-> droppedFrameRate]
           /\ stalledSinceRef' = stalledSince
           /\ stallCountRef' = stallCount
           /\ totalBufferingTimeRef' = bufferingTime
           /\ health' = [score |-> score,
                         level |-> HealthLevel(score),
                         issues |-> HealthIssues(bufferLevel, droppedFrameRate,
                                                 stallCount, isStalled),
                         recommendations |-> HealthRecommendations(bufferLevel,
                                                 droppedFrameRate, stallCount),
                         stallCount |-> stallCount,
                         bufferingTime |-> bufferingTime,
                         lastStallTime |-> stalledSince]
           /\ lastTimeRef' = currentTime
           /\ lastCheckRef' = now
    /\ hmInterval' = ArmedHmInterval
    /\ UNCHANGED <<nonHmVars, now, hmConfig, hmStable, hmMounted>>

\* the host component renders again.  With the default config parameter the
\* config object, and with it calculateScore, is new on every render, so the
\* effect is cleaned up and run again: the interval starts over.
HmEffectRerun ==
    IF ~hmStable /\ hmInterval.live THEN hmInterval' = ArmedHmInterval
    ELSE UNCHANGED hmInterval

HmRender ==
    /\ hmMounted
    /\ ~hmStable
    /\ hmInterval.live
    /\ hmInterval # ArmedHmInterval
    /\ HmEffectRerun
    /\ UNCHANGED <<nonHmVars, now, hmConfig, hmStable, hmMounted, video, health, lastTimeRef,
                   lastCheckRef, stalledSinceRef, totalBufferingTimeRef, stallCountRef>>

\* one period of d ms passes while the monitor runs, with the clock kept
\* where it is: every time the monitor holds (the deadline of the interval,
\* lastCheckRef, stalledSinceRef, the published lastStallTime) moves d ms
\* into the past, and the video position is counted from the position the
\* monitor last read.  The differences the callback computes are the same
\* as with a clock that moves; an endless run stays within finitely many
\* states.
HmElapse(d) ==
    /\ hmMounted
    /\ hmInterval.live
    /\ hmInterval.due >= now + d
    /\ hmInterval' = [hmInterval EXCEPT !.due = @ - d]
    /\ lastCheckRef' = lastCheckRef - d
    /\ stalledSinceRef' = IF stalledSinceRef = 0 THEN 0 ELSE stalledSinceRef - d
    /\ health' = [health EXCEPT !.lastStallTime = IF @ = 0 THEN 0 ELSE @ - d]
    /\ video' = [video EXCEPT !.currentTime = 0]
    /\ lastTimeRef' = lastTimeRef - video.currentTime
    /\ UNCHANGED <<nonHmVars, now, hmConfig, hmStable, hmMounted, totalBufferingTimeRef,
                   stallCountRef>>

\* mutant of resetHealth: the stall counter is kept
resetHealth_KeepsStalls ==
    /\ hmMounted
    /\ totalBufferingTimeRef' = 0
    /\ stalledSinceRef' = 0
    /\ health' = InitialHealth
    /\ HmEffectRerun
    /\ UNCHANGED <<nonHmVars, now, hmConfig, hmStable, hmMounted, video, lastTimeRef,
                   lastCheckRef, stallCountRef>>

\* reset() of the monitor, and the render its setHealth causes
resetHealth ==
    /\ hmMounted
    /\ stallCountRef' = 0
    /\ totalBufferingTimeRef' = 0
    /\ stalledSinceRef' = 0
    /\ health' = InitialHealth
    /\ HmEffectRerun
    /\ UNCHANGED <<nonHmVars, now, hmConfig, hmStable, hmMounted, video, lastTimeRef,
                   lastCheckRef>>

\* the cleanup of the effect at unmount
HmUnmount ==
    /\ hmMounted
    /\ hmMounted' = FALSE
    /\ hmInterval' = None
    /\ UNCHANGED <<nonHmVars, now, hmConfig, hmStable, video, health, lastTimeRef,
                   lastCheckRef, stalledSinceRef, totalBufferingTimeRef, stallCountRef>>

\* ======================================================================
\* useRealBandwidth (src/unnamed/part_001)
\* A bitrate in Mbps is kept as an exact fraction num / den:
\* (bytes * 8) / (seconds * 1000000) = (bytes * 8 / 1000) / ms; the sizes of
\* the samples are multiples of 125 bytes, so that bytes * 8 / 1000 is whole.
\* ======================================================================
\* transfer sizes of the observed resources, in bytes; 0 stands for an entry
\* that is not a video resource or has no size
SampleBytes == {125, 625}

\* the entry lists one observer callback is handed
EntryBatches ==
    {<<125>>, <<625>>, <<0>>,
     <<125, 125, 125, 125, 125>>,
     <<625, 625, 625, 625, 625>>}

ZeroRate == [num |-> 0, den |-> 1]

InitialBandwidth ==
    [currentBitrate |-> ZeroRate, averageBitrate |-> ZeroRate,
     downloadSpeed |-> ZeroRate, trend |-> "stable"]

RECURSIVE SumBytes(_)
SumBytes(samples) ==
    IF samples = <<>> THEN 0 ELSE Head(samples).bytes + SumBytes(Tail(samples))

\* timeSpan > 0 ? (totalBytes * 8) / (timeSpan * 1000000) : 0, timeSpan = ms / 1000
Rate(totalBytes, ms) ==
    IF ms > 0 THEN [num |-> (totalBytes * 8) \div 1000, den |-> ms] ELSE ZeroRate

\* Math.max(0, rate)
NonNegative(rate) == IF rate.num < 0 THEN ZeroRate ELSE rate

\* mutant of PushAndPrune: a sample exactly 30 s old is kept
PushAndPrune_KeepsBoundary(samples, bytes, t) ==
    LET Keep(sample) == t - sample.time <= 30000
    IN  SelectSeq(Append(samples, [bytes |-> bytes, time |-> t]), Keep)

\* samplesRef.current.push({bytes, time: now}) and the filter that follows
PushAndPrune(samples, bytes, t) ==
    LET Keep(sample) == t - sample.time < 30000
    IN  SelectSeq(Append(samples, [bytes |-> bytes, time |-> t]), Keep)

\* the loop of the observer callback over its entries
RECURSIVE ObserveEntries(_, _, _)
ObserveEntries(samples, entries, t) ==
    IF entries = <<>> THEN samples
    ELSE ObserveEntries(IF Head(entries) > 0
                        THEN PushAndPrune(samples, Head(entries), t)
                        ELSE samples,
                        Tail(entries), t)

\* the PerformanceObserver callback
BwObserve(entries) ==
    /\ bwMounted
    /\ bwObserver
    /\ samplesRef' = ObserveEntries(samplesRef, entries, now)
    /\ bwCallbacks' = bwCallbacks + 1
    /\ UNCHANGED <<nonBwVars, now, bwMounted, bwObserver, bandwidth, bwInterval>>

\* bitrate of the samples of the last 2 seconds
CurrentBitrate(samples) ==
    LET Recent(sample) == now - sample.time < 2000
        recentSamples == SelectSeq(samples, Recent)
    IN  IF Len(recentSamples) >= 2
        THEN Rate(SumBytes(recentSamples), now - recentSamples[1].time)
        ELSE ZeroRate

\* mutant of AverageBitrate: the bytes are divided by the 30 s of the window
AverageBitrate_FixedWindow(samples) ==
    IF Len(samples) >= 2 THEN Rate(SumBytes(samples), 30000) ELSE ZeroRate

\* bitrate over the whole list of samples
AverageBitrate(samples) ==
    IF Len(samples) >= 2
    THEN Rate(SumBytes(samples), samples[Len(samples)].time - samples[1].time)
    ELSE ZeroRate

\* mutant of Trend: the halves are compared without the minimum of 10 samples
Trend_NoMinimum(samples) ==
    LET mid == Len(samples) \div 2
        oldSamples == SubSeq(samples, 1, mid)
        newSamples == SubSeq(samples, mid + 1, Len(samples))
        oldRate == IF oldSamples = <<>> THEN ZeroRate
                   ELSE Rate(SumBytes(oldSamples),
                             oldSamples[Len(oldSamples)].time - oldSamples[1].time)
        newRate == Rate(SumBytes(newSamples),
                        newSamples[Len(newSamples)].time - newSamples[1].time)
    IN  IF 10 * newRate.num * oldRate.den > 13 * oldRate.num * newRate.den
        THEN "increasing"
        ELSE IF 10 * newRate.num * oldRate.den < 7 * oldRate.num * newRate.den
        THEN "decreasing"
        ELSE "stable"

\* newRate > oldRate * 1.3, newRate < oldRate * 0.7, over the two halves
Trend(samples) ==
    IF Len(samples) >= 10
    THEN LET mid == Len(samples) \div 2
             oldSamples == SubSeq(samples, 1, mid)
             newSamples == SubSeq(samples, mid + 1, Len(samples))
             oldRate == Rate(SumBytes(oldSamples),
                             oldSamples[Len(oldSamples)].time - oldSamples[1].time)
             newRate == Rate(SumBytes(newSamples),
                             newSamples[Len(newSamples)].time - newSamples[1].time)
         IN  IF 10 * newRate.num * oldRate.den > 13 * oldRate.num * newRate.den
             THEN "increasing"
             ELSE IF 10 * newRate.num * oldRate.den < 7 * oldRate.num * newRate.den
             THEN "decreasing"
             ELSE "stable"
    ELSE "stable"

\* one run of the 2-second interval callback
BwTick ==
    /\ bwMounted
    /\ bwInterval.live
    /\ bwInterval.due <= now
    /\ IF Len(samplesRef) < 2
       THEN UNCHANGED bandwidth
       ELSE bandwidth' =
              [currentBitrate |-> NonNegative(CurrentBitrate(samplesRef)),
               averageBitrate |-> NonNegative(AverageBitrate(samplesRef)),
               downloadSpeed |-> NonNegative(CurrentBitrate(samplesRef)),
               trend |-> Trend(samplesRef)]
    /\ bwInterval' = [live |-> TRUE, due |-> now + 2000]
    /\ UNCHANGED <<nonBwVars, now, bwMounted, bwObserver, samplesRef, bwCallbacks>>

\* connection.effectiveType as useBandwidthMonitor reads it
EffectiveTypes == {"5g", "4g", "3g", "2g"}

\* the fixed table of useBandwidthMonitor, in Mbps
estimatedBandwidth(effectiveType) ==
    IF effectiveType = "5g" THEN 20
    ELSE IF effectiveType = "4g" THEN 10
    ELSE IF effectiveType = "3g" THEN 2
    ELSE 1

\* setInterval guarantees no more than a minimum delay: while the page is
\* hidden or the main thread is busy the callback is held back, and the clock
\* passes the time the interval was due (one late run follows, not one run
\* per missed period)
BwThrottled(d, limit) ==
    /\ bwMounted
    /\ bwInterval.live
    /\ now + d <= StartTime + limit
    /\ now + d > bwInterval.due
    /\ now' = now + d
    /\ UNCHANGED <<erVars, hmVars, bwVars, abrVars>>

\* the cleanup of the effect: the interval is cleared, the observer disconnected
BwUnmount ==
    /\ bwMounted
    /\ bwMounted' = FALSE
    /\ bwObserver' = FALSE
    /\ bwInterval' = None
    /\ UNCHANGED <<nonBwVars, now, samplesRef, bandwidth, bwCallbacks>>

\* ======================================================================
\* useAdaptiveBitrate
\* currentBandwidth is in kbps (5 Mbps = 5000), buffer levels in tenths of a
\* second, the bandwidth of a ladder rung in bps as in StreamQuality.
\* ======================================================================
DefaultAbrConfig ==
    [enabled |-> TRUE, switchThreshold |-> 3, minSwitchInterval |-> 10000,
     bufferTargetUp |-> 80, bufferTargetDown |-> 20]

\* a caller-supplied configuration that settles within one decision period
FastAbrConfig ==
    [enabled |-> TRUE, switchThreshold |-> 1, minSwitchInterval |-> 4000,
     bufferTargetUp |-> 80, bufferTargetDown |-> 20]

\* null for a StreamQuality
NoQuality == [label |-> "none", bandwidth |-> 0]

\* availableQualities
Ladder ==
    <<[label |-> "480p", bandwidth |-> 1000000],
      [label |-> "720p", bandwidth |-> 3000000],
      [label |-> "1080p", bandwidth |-> 6000000]>>

\* the arguments the host passes: bandwidth, buffer level, health score
InitialTelemetry ==
    [currentBandwidth |-> 5000, bufferLevel |-> 100, healthScore |-> 90]

Telemetry ==
    {InitialTelemetry,
     [currentBandwidth |-> 7000, bufferLevel |-> 50, healthScore |-> 90],
     [currentBandwidth |-> 8000, bufferLevel |-> 100, healthScore |-> 90],
     [currentBandwidth |-> 1500, bufferLevel |-> 10, healthScore |-> 40],
     [currentBandwidth |-> 2000, bufferLevel |-> 100, healthScore |-> 90]}

\* telemetry on both sides of every threshold of the gate
GateBandwidths == {2000, 3200, 4500, 7000, 9000}
GateBufferLevels == {19, 20, 79, 80}
GateHealthScores == {49, 50, 60, 69, 70, 80, 81}

\* what setManualQuality is called with
ManualChoices == {NoQuality, Ladder[1], Ladder[3]}

InitialAbrState ==
    [currentQuality |-> NoQuality, targetQuality |-> NoQuality, isAdapting |-> FALSE,
     adaptationReason |-> "", switchCount |-> 0]

\* recommendQuality of @/utils/manifestParser: the highest rung whose
\* bandwidth does not exceed the target, the lowest rung if there is none.
\* The target is in units of 0.1 bps.
recommendQuality(target, qualities) ==
    LET fits == {i \in DOMAIN qualities : qualities[i].bandwidth * 10 <= target}
        lowest == CHOOSE i \in DOMAIN qualities :
                     \A j \in DOMAIN qualities :
                        qualities[i].bandwidth <= qualities[j].bandwidth
        best == CHOOSE i \in fits :
                   \A j \in fits : qualities[j].bandwidth <= qualities[i].bandwidth
    IN  IF fits = {} THEN qualities[lowest] ELSE qualities[best]

\* mutant of determineOptimalQuality: the buffer level does not scale the target
determineOptimalQuality_IgnoresBuffer ==
    IF Len(Ladder) = 0 \/ ~abrConfig.enabled THEN NoQuality
    ELSE LET safetyFactor == IF abrProps.healthScore > 80 THEN 90
                             ELSE IF abrProps.healthScore > 60 THEN 75 ELSE 60
         IN  recommendQuality(abrProps.currentBandwidth * safetyFactor * 100, Ladder)

\* determineOptimalQuality(); the factors are in hundredths, which makes the
\* target bandwidth a number of 0.1 bps
determineOptimalQuality ==
    IF Len(Ladder) = 0 \/ ~abrConfig.enabled THEN NoQuality
    ELSE LET safetyFactor == IF abrProps.healthScore > 80 THEN 90
                             ELSE IF abrProps.healthScore > 60 THEN 75 ELSE 60
             bufferFactor == IF abrProps.bufferLevel < abrConfig.bufferTargetDown THEN 70
                             ELSE IF abrProps.bufferLevel < abrConfig.bufferTargetUp THEN 85
                             ELSE 100
         IN  recommendQuality(abrProps.currentBandwidth * safetyFactor * bufferFactor,
                              Ladder)

\* mutant of shouldSwitch: the minimum interval between switches is not checked
shouldSwitch_NoInterval(current, target) ==
    IF target = NoQuality \/ ~abrConfig.enabled
    THEN [should |-> FALSE, reason |-> "ABR desactive"]
    ELSE IF current = NoQuality
    THEN [should |-> TRUE, reason |-> "Initialisation qualite"]
    ELSE IF current.bandwidth = target.bandwidth
    THEN [should |-> FALSE, reason |-> "Qualite deja optimale"]
    ELSE IF target.bandwidth < current.bandwidth
    THEN [should |-> TRUE, reason |-> "Bande passante insuffisante"]
    ELSE [should |-> TRUE, reason |-> "Conditions optimales - upgrade"]

\* mutant of shouldSwitch: an upgrade does not wait for the hysteresis counter
shouldSwitch_NoHysteresis(current, target) ==
    IF target = NoQuality \/ ~abrConfig.enabled
    THEN [should |-> FALSE, reason |-> "ABR desactive"]
    ELSE IF now - lastSwitchTimeRef < abrConfig.minSwitchInterval
    THEN [should |-> FALSE, reason |-> "Trop tot pour changer"]
    ELSE IF current = NoQuality
    THEN [should |-> TRUE, reason |-> "Initialisation qualite"]
    ELSE IF current.bandwidth = target.bandwidth
    THEN [should |-> FALSE, reason |-> "Qualite deja optimale"]
    ELSE IF abrProps.bufferLevel < abrConfig.bufferTargetDown
            /\ target.bandwidth < current.bandwidth
    THEN [should |-> TRUE, reason |-> "Buffer critique - downgrade urgent"]
    ELSE IF abrProps.healthScore < 50 /\ target.bandwidth < current.bandwidth
    THEN [should |-> TRUE, reason |-> "Sante faible - downgrade recommande"]
    ELSE IF target.bandwidth > current.bandwidth
    THEN (IF abrProps.bufferLevel < abrConfig.bufferTargetUp
          THEN [should |-> FALSE, reason |-> "Buffer insuffisant pour upgrade"]
          ELSE IF abrProps.healthScore < 70
          THEN [should |-> FALSE, reason |-> "Sante insuffisante pour upgrade"]
          ELSE [should |-> TRUE, reason |-> "Conditions optimales - upgrade"])
    ELSE IF target.bandwidth < current.bandwidth
            /\ gateBandwidth * 10000 < current.bandwidth * 12
    THEN [should |-> TRUE, reason |-> "Bande passante insuffisante"]
    ELSE [should |-> FALSE, reason |-> "Conditions non reunies"]

\* mutant of shouldSwitch: low health alone does not accept a downgrade
shouldSwitch_NoHealthRule(current, target) ==
    IF target = NoQuality \/ ~abrConfig.enabled
    THEN [should |-> FALSE, reason |-> "ABR desactive"]
    ELSE IF now - lastSwitchTimeRef < abrConfig.minSwitchInterval
    THEN [should |-> FALSE, reason |-> "Trop tot pour changer"]
    ELSE IF current = NoQuality
    THEN [should |-> TRUE, reason |-> "Initialisation qualite"]
    ELSE IF current.bandwidth = target.bandwidth
    THEN [should |-> FALSE, reason |-> "Qualite deja optimale"]
    ELSE IF abrProps.bufferLevel < abrConfig.bufferTargetDown
            /\ target.bandwidth < current.bandwidth
    THEN [should |-> TRUE, reason |-> "Buffer critique - downgrade urgent"]
    ELSE IF target.bandwidth > current.bandwidth
    THEN (IF abrProps.bufferLevel < abrConfig.bufferTargetUp
          THEN [should |-> FALSE, reason |-> "Buffer insuffisant pour upgrade"]
          ELSE IF abrProps.healthScore < 70
          THEN [should |-> FALSE, reason |-> "Sante insuffisante pour upgrade"]
          ELSE IF stableCountRef < 2
          THEN [should |-> FALSE, reason |-> "Conditions pas encore stables"]
          ELSE [should |-> TRUE, reason |-> "Conditions optimales - upgrade"])
    ELSE IF target.bandwidth < current.bandwidth
            /\ gateBandwidth * 10000 < current.bandwidth * 12
    THEN [should |-> TRUE, reason |-> "Bande passante insuffisante"]
    ELSE [should |-> FALSE, reason |-> "Conditions non reunies"]

\* shouldSwitch(current, target).  bufferLevel and healthScore are those of the
\* last render; currentBandwidth is the one of the render that last rebuilt
\* the callback (its dependencies are bufferLevel, healthScore and config)
shouldSwitch(current, target) ==
    IF target = NoQuality \/ ~abrConfig.enabled
    THEN [should |-> FALSE, reason |-> "ABR desactive"]
    ELSE IF now - lastSwitchTimeRef < abrConfig.minSwitchInterval
    THEN [should |-> FALSE, reason |-> "Trop tot pour changer"]
    ELSE IF current = NoQuality
    THEN [should |-> TRUE, reason |-> "Initialisation qualite"]
    ELSE IF current.bandwidth = target.bandwidth
    THEN [should |-> FALSE, reason |-> "Qualite deja optimale"]
    ELSE IF abrProps.bufferLevel < abrConfig.bufferTargetDown
            /\ target.bandwidth < current.bandwidth
    THEN [should |-> TRUE, reason |-> "Buffer critique - downgrade urgent"]
    ELSE IF abrProps.healthScore < 50 /\ target.bandwidth < current.bandwidth
    THEN [should |-> TRUE, reason |-> "Sante faible - downgrade recommande"]
    ELSE IF target.bandwidth > current.bandwidth
    THEN (IF abrProps.bufferLevel < abrConfig.bufferTargetUp
          THEN [should |-> FALSE, reason |-> "Buffer insuffisant pour upgrade"]
          ELSE IF abrProps.healthScore < 70
          THEN [should |-> FALSE, reason |-> "Sante insuffisante pour upgrade"]
          ELSE IF stableCountRef < 2
          THEN [should |-> FALSE, reason |-> "Conditions pas encore stables"]
          ELSE [should |-> TRUE, reason |-> "Conditions optimales - upgrade"])
    ELSE IF target.bandwidth < current.bandwidth
            /\ gateBandwidth * 10000 < current.bandwidth * 12
    THEN [should |-> TRUE, reason |-> "Bande passante insuffisante"]
    ELSE [should |-> FALSE, reason |-> "Conditions non reunies"]

\* the interval the effect arms
ArmedAbrInterval ==
    IF abrConfig.enabled /\ Len(Ladder) > 0
    THEN [live |-> TRUE, due |-> now + 2000]
    ELSE None

\* the effect is cleaned up and run again: the interval starts over and the
\* settle timer is cleared (isAdapting and targetQuality are left as they are)
AbrEffectRerun ==
    /\ abrInterval' = ArmedAbrInterval
    /\ adaptationTimer' = None

\* the host renders the hook with new arguments
AbrPropsChange(t) ==
    /\ abrMounted
    /\ ~abrRenderDue
    /\ t # abrProps
    /\ abrProps' = t
    /\ gateBandwidth' =
          IF \/ ~abrStable
             \/ t.bufferLevel # abrProps.bufferLevel
             \/ t.healthScore # abrProps.healthScore
          THEN t.currentBandwidth
          ELSE gateBandwidth
    /\ AbrEffectRerun
    /\ abrInputs' = abrInputs + 1
    /\ UNCHANGED <<nonAbrVars, now, abrConfig, abrStable, abrMounted, abrState,
                   lastSwitchTimeRef, switchCountRef, stableCountRef, abrEffectQuality,
                   abrRenderDue, abrCandidate>>

\* one run of the checkInterval callback
AbrTick ==
    /\ abrMounted
    /\ ~abrRenderDue
    /\ abrInterval.live
    /\ abrInterval.due <= now
    /\ LET optimalQuality == determineOptimalQuality
           decision == shouldSwitch(abrState.currentQuality, optimalQuality)
       IN  /\ abrCandidate' = optimalQuality
           /\ IF decision.should
              THEN /\ abrState' = [abrState EXCEPT !.targetQuality = optimalQuality,
                                                   !.isAdapting = TRUE,
                                                   !.adaptationReason = decision.reason]
                   /\ adaptationTimer' =
                         [live |-> TRUE,
                          due |-> now + abrConfig.switchThreshold * 1000,
                          quality |-> optimalQuality]
                   /\ UNCHANGED stableCountRef
              ELSE /\ stableCountRef' = stableCountRef + 1
                   /\ adaptationTimer' = None
                   /\ abrState' = [abrState EXCEPT !.targetQuality = NoQuality,
                                                   !.isAdapting = FALSE,
                                                   !.adaptationReason = decision.reason]
    /\ abrInterval' = [live |-> TRUE, due |-> now + 2000]
    /\ abrRenderDue' = TRUE
    /\ UNCHANGED <<nonAbrVars, now, abrConfig, abrStable, abrMounted, abrProps,
                   gateBandwidth, lastSwitchTimeRef, switchCountRef, abrEffectQuality,
                   abrInputs>>

\* mutant of AbrSettle: the commit does not record the time of the switch
AbrSettle_NoTimestamp ==
    /\ abrMounted
    /\ ~abrRenderDue
    /\ adaptationTimer.live
    /\ adaptationTimer.due <= now
    /\ switchCountRef' = switchCountRef + 1
    /\ stableCountRef' = 0
    /\ abrState' = [currentQuality |-> adaptationTimer.quality,
                    targetQuality |-> NoQuality,
                    isAdapting |-> FALSE,
                    adaptationReason |-> "",
                    switchCount |-> switchCountRef + 1]
    /\ adaptationTimer' = None
    /\ abrRenderDue' = TRUE
    /\ UNCHANGED <<nonAbrVars, now, abrConfig, abrStable, abrMounted, abrProps,
                   gateBandwidth, abrInterval, abrEffectQuality, abrInputs, abrCandidate,
                   lastSwitchTimeRef>>

\* the settle timer fires: the switch is committed
AbrSettle ==
    /\ abrMounted
    /\ ~abrRenderDue
    /\ adaptationTimer.live
    /\ adaptationTimer.due <= now
    /\ switchCountRef' = switchCountRef + 1
    /\ lastSwitchTimeRef' = now
    /\ stableCountRef' = 0
    /\ abrState' = [currentQuality |-> adaptationTimer.quality,
                    targetQuality |-> NoQuality,
                    isAdapting |-> FALSE,
                    adaptationReason |-> "",
                    switchCount |-> switchCountRef + 1]
    /\ adaptationTimer' = None
    /\ abrRenderDue' = TRUE
    /\ UNCHANGED <<nonAbrVars, now, abrConfig, abrStable, abrMounted, abrProps,
                   gateBandwidth, abrInterval, abrEffectQuality, abrInputs, abrCandidate>>

\* React renders the hook after a state update.  The effect runs again when
\* one of its dependencies changed: abrState.currentQuality, or the config
\* object when it is the default parameter (a new object on every render).
AbrRender ==
    /\ abrMounted
    /\ abrRenderDue
    /\ abrRenderDue' = FALSE
    /\ IF ~abrStable \/ abrState.currentQuality # abrEffectQuality
       THEN /\ AbrEffectRerun
            /\ abrEffectQuality' = abrState.currentQuality
       ELSE UNCHANGED <<abrInterval, adaptationTimer, abrEffectQuality>>
    /\ gateBandwidth' = IF abrStable THEN gateBandwidth ELSE abrProps.currentBandwidth
    /\ UNCHANGED <<nonAbrVars, now, abrConfig, abrStable, abrMounted, abrProps, abrState,
                   lastSwitchTimeRef, switchCountRef, stableCountRef, abrInputs,
                   abrCandidate>>

\* mutant of setManualQuality: the hysteresis counter is kept
setManualQuality_KeepsHysteresis(quality) ==
    /\ abrMounted
    /\ ~abrRenderDue
    /\ abrState' = [currentQuality |-> quality,
                    targetQuality |-> NoQuality,
                    isAdapting |-> FALSE,
                    adaptationReason |-> "Manuel",
                    switchCount |-> switchCountRef]
    /\ abrRenderDue' = TRUE
    /\ abrInputs' = abrInputs + 1
    /\ UNCHANGED <<nonAbrVars, now, abrConfig, abrStable, abrMounted, abrProps,
                   gateBandwidth, lastSwitchTimeRef, switchCountRef, adaptationTimer,
                   abrInterval, abrEffectQuality, abrCandidate, stableCountRef>>

\* mutant of setManualQuality: a pending target is kept
setManualQuality_KeepsTarget(quality) ==
    /\ abrMounted
    /\ ~abrRenderDue
    /\ abrState' = [currentQuality |-> quality,
                    targetQuality |-> abrState.targetQuality,
                    isAdapting |-> FALSE,
                    adaptationReason |-> "Manuel",
                    switchCount |-> switchCountRef]
    /\ stableCountRef' = 0
    /\ abrRenderDue' = TRUE
    /\ abrInputs' = abrInputs + 1
    /\ UNCHANGED <<nonAbrVars, now, abrConfig, abrStable, abrMounted, abrProps,
                   gateBandwidth, lastSwitchTimeRef, switchCountRef, adaptationTimer,
                   abrInterval, abrEffectQuality, abrCandidate>>

\* setManualQuality(quality)
setManualQuality(quality) ==
    /\ abrMounted
    /\ ~abrRenderDue
    /\ abrState' = [currentQuality |-> quality,
                    targetQuality |-> NoQuality,
                    isAdapting |-> FALSE,
                    adaptationReason |-> "Manuel",
                    switchCount |-> switchCountRef]
    /\ stableCountRef' = 0
    /\ abrRenderDue' = TRUE
    /\ abrInputs' = abrInputs + 1
    /\ UNCHANGED <<nonAbrVars, now, abrConfig, abrStable, abrMounted, abrProps,
                   gateBandwidth, lastSwitchTimeRef, switchCountRef, adaptationTimer,
                   abrInterval, abrEffectQuality, abrCandidate>>

\* d ms pass while the engine runs, with the clock kept where it is: the
\* deadlines of the interval and of the settle timer and the time of the last
\* switch move d ms into the past.  A last switch older than
\* minSwitchInterval is kept at that age (shouldSwitch only asks whether it
\* is younger), so that an endless run stays within finitely many states.
AbrElapse(d) ==
    /\ abrMounted
    /\ ~abrRenderDue
    /\ abrInterval.live
    /\ abrInterval.due >= now + d
    /\ IF adaptationTimer.live THEN adaptationTimer.due >= now + d ELSE TRUE
    /\ abrInterval' = [abrInterval EXCEPT !.due = @ - d]
    /\ adaptationTimer' =
          IF adaptationTimer.live THEN [adaptationTimer EXCEPT !.due = @ - d]
          ELSE adaptationTimer
    /\ lastSwitchTimeRef' =
          IF lastSwitchTimeRef = 0 THEN 0
          ELSE Max(lastSwitchTimeRef - d, now - abrConfig.minSwitchInterval)
    /\ UNCHANGED <<nonAbrVars, now, abrConfig, abrStable, abrMounted, abrProps,
                   gateBandwidth, abrState, switchCountRef, stableCountRef,
                   abrEffectQuality, abrRenderDue, abrInputs, abrCandidate>>

\* the cleanup of the effect at unmount
AbrUnmount ==
    /\ abrMounted
    /\ ~abrRenderDue
    /\ abrMounted' = FALSE
    /\ abrInterval' = None
    /\ adaptationTimer' = None
    /\ UNCHANGED <<nonAbrVars, now, abrConfig, abrStable, abrProps, abrState,
                   gateBandwidth, lastSwitchTimeRef, switchCountRef, stableCountRef,
                   abrEffectQuality, abrRenderDue, abrInputs, abrCandidate>>

\* ------------------------------------------------------------------- clock
TimerAllows(timer, t) ==
    IF timer.live THEN timer.due > now /\ timer.due >= t ELSE TRUE

\* an episode is open, a timer is live or a recovery action is running; the
\* passing of time is modelled only then (nothing reads the clock otherwise)
ErBusy ==
    \/ errorState.recoveryStartTime # 0
    \/ retryTimer.live
    \/ globalTimer.live
    \/ \E i \in DOMAIN attempts : attempts[i].running

\* some component has a reason to look at the clock
Busy == ErBusy \/ hmMounted \/ bwMounted \/ abrMounted

\* the clock advances by d; a pending render is flushed first, and no live
\* timer is skipped
Advance(d, limit) ==
    /\ now + d <= StartTime + limit
    /\ ErRendered
    /\ Busy
    /\ TimerAllows(retryTimer, now + d)
    /\ TimerAllows(globalTimer, now + d)
    /\ TimerAllows(hmInterval, now + d)
    /\ TimerAllows(bwInterval, now + d)
    /\ ~abrRenderDue
    /\ TimerAllows(abrInterval, now + d)
    /\ TimerAllows(adaptationTimer, now + d)
    /\ now' = now + d
    /\ UNCHANGED <<erVars, hmVars, bwVars, abrVars>>

\* --------------------------------------------------------- specifications
InitEr(cfg) ==
    /\ now = StartTime
    /\ erConfig = cfg
    /\ errorState = InitialErrorState(cfg)
    /\ erView = Captured(InitialErrorState(cfg))
    /\ retryTimer = None
    /\ globalTimer = None
    /\ attempts = <<>>
    /\ erMounted = TRUE
    /\ erTimedOut = FALSE
    /\ erRecorded = 0
    /\ erInvoked = 0
    /\ erStopped = FALSE

\* the monitor mounted with config cfg; stable tells whether the caller keeps
\* passing the same config object
InitHm(cfg, stable) ==
    /\ hmConfig = cfg
    /\ hmStable = stable
    /\ hmMounted = TRUE
    /\ video = InitialVideo
    /\ health = InitialHealth
    /\ lastTimeRef = 0
    /\ lastCheckRef = now
    /\ stalledSinceRef = 0
    /\ totalBufferingTimeRef = 0
    /\ stallCountRef = 0
    /\ hmInterval = None

\* the monitor is not part of the page
HmIdle ==
    /\ hmConfig = DefaultHealthConfig
    /\ hmStable = TRUE
    /\ hmMounted = FALSE
    /\ video = InitialVideo
    /\ health = InitialHealth
    /\ lastTimeRef = 0
    /\ lastCheckRef = now
    /\ stalledSinceRef = 0
    /\ totalBufferingTimeRef = 0
    /\ stallCountRef = 0
    /\ hmInterval = None

\* the estimator is not part of the page
BwIdle ==
    /\ bwMounted = FALSE
    /\ bwObserver = FALSE
    /\ samplesRef = <<>>
    /\ bandwidth = InitialBandwidth
    /\ bwInterval = None
    /\ bwCallbacks = 0

\* the estimator after its mount effect; observer tells whether the
\* PerformanceObserver could be created
InitBw(observer) ==
    /\ bwMounted = TRUE
    /\ bwObserver = observer
    /\ samplesRef = <<>>
    /\ bandwidth = InitialBandwidth
    /\ bwInterval = [live |-> TRUE, due |-> now + 2000]
    /\ bwCallbacks = 0

\* the engine is not part of the page
AbrIdle ==
    /\ abrConfig = DefaultAbrConfig
    /\ abrStable = TRUE
    /\ abrMounted = FALSE
    /\ abrProps = InitialTelemetry
    /\ gateBandwidth = InitialTelemetry.currentBandwidth
    /\ abrState = InitialAbrState
    /\ lastSwitchTimeRef = 0
    /\ switchCountRef = 0
    /\ stableCountRef = 0
    /\ adaptationTimer = None
    /\ abrInterval = None
    /\ abrEffectQuality = NoQuality
    /\ abrRenderDue = FALSE
    /\ abrInputs = 0
    /\ abrCandidate = NoQuality

\* the engine after its mount effect
InitAbr(cfg, stable) ==
    /\ abrConfig = cfg
    /\ abrStable = stable
    /\ abrMounted = TRUE
    /\ abrProps = InitialTelemetry
    /\ gateBandwidth = InitialTelemetry.currentBandwidth
    /\ abrState = InitialAbrState
    /\ lastSwitchTimeRef = 0
    /\ switchCountRef = 0
    /\ stableCountRef = 0
    /\ adaptationTimer = None
    /\ abrInterval = [live |-> TRUE, due |-> now + 2000]
    /\ abrEffectQuality = NoQuality
    /\ abrRenderDue = FALSE
    /\ abrInputs = 0
    /\ abrCandidate = NoQuality

Init == InitEr(SmallRetryConfig) /\ HmIdle /\ BwIdle /\ AbrIdle

NextEr ==
    \/ /\ errorState.errorCount < MaxErrors
       /\ \E e \in ErrorTexts, r \in RandomValues : recordError(e, r)
    \/ /\ Len(attempts) < MaxAttempts
       /\ attemptRecovery
    \/ RetryTimerFires
    \/ \E i \in 1..MaxAttempts : RecoverySucceeds(i)
    \/ \E i \in 1..MaxAttempts, th \in Thrown : RecoveryFails(i, th)
    \/ GlobalTimeoutFires
    \/ reset
    \/ forceStop
    \/ ErUnmount
    \/ ErRender

Next ==
    \/ NextEr
    \/ Advance(1, ErMaxElapsed)

Spec == Init /\ [][Next]_vars

\* The controller configured for a single retry: the same operations, so that
\* the retry ceiling is reached within two attempts.
InitRetries == InitEr(SingleRetryConfig) /\ HmIdle /\ BwIdle /\ AbrIdle

SpecRetries == InitRetries /\ [][Next]_vars

\* The controller with its default configuration: the backoff arithmetic on
\* the delays of the source, one recovery attempt, the clock jumping to the
\* retry deadline.
InitBackoff == InitEr(DefaultRetryConfig) /\ HmIdle /\ BwIdle /\ AbrIdle

NextBackoff ==
    \/ /\ errorState.errorCount < BackoffMaxErrors
       /\ \E e \in ErrorTexts, r \in RandomValues : recordError(e, r)
    \/ /\ attempts = <<>>
       /\ attemptRecovery
    \/ RetryTimerFires
    \/ \E i \in 1..MaxAttempts : RecoverySucceeds(i)
    \/ reset
    \/ ErRender
    \/ /\ retryTimer.live
       /\ retryTimer.due > now
       /\ Advance(retryTimer.due - now, BackoffMaxElapsed)

SpecBackoff == InitBackoff /\ [][NextBackoff]_vars

\* The health monitor alone, with the default configuration and with a
\* configuration whose stall threshold is below the check interval.
InitHealth ==
    /\ InitEr(SmallRetryConfig)
    /\ \E cfg \in {DefaultHealthConfig, QuickStallConfig}, stable \in BOOLEAN :
          InitHm(cfg, stable)
    /\ BwIdle
    /\ AbrIdle

NextHealth ==
    \/ HmAttach
    \/ \E p \in ProgressValues, paused \in BOOLEAN,
          b \in BufferLevels, r \in DroppedFrameRates : HmTick(p, paused, b, r)
    \/ HmRender
    \/ resetHealth
    \/ HmUnmount
    \/ Advance(1000, HmMaxElapsed)

SpecHealth == InitHealth /\ [][NextHealth]_vars

\* The health monitor over an unbounded time: the video element is there
\* from the start and is never paused, every tick runs on schedule, and the
\* host neither resets the monitor nor renders on its own.  The stalled
\* ticks of a run are bounded (LiveMaxBuffering) unless the monitor fails to
\* record them.
\* a tick of a video that plays on (1 s of progress) or does not move
HmTickPlaying ==
    \E p \in {0, 1000}, b \in BufferLevels, r \in DroppedFrameRates :
       /\ p = 0 => totalBufferingTimeRef < LiveMaxBuffering
       /\ HmTick(p, FALSE, b, r)

NextHealthLive ==
    \/ HmAttach
    \/ HmTickPlaying
    \/ HmElapse(hmConfig.checkInterval)
    \/ HmUnmount

SpecHealthLive ==
    /\ InitHealth
    /\ [][NextHealthLive]_vars
    /\ WF_vars(HmAttach)
    /\ WF_vars(HmTickPlaying)
    /\ WF_vars(HmElapse(hmConfig.checkInterval))

\* calculateScore on inputs drawn from both sides of every tier boundary:
\* the monitor as some earlier ticks left it, and one more tick.
InitScore ==
    /\ InitEr(SmallRetryConfig)
    /\ hmConfig = DefaultHealthConfig
    /\ hmStable \in BOOLEAN
    /\ hmMounted = TRUE
    /\ video = [InitialVideo EXCEPT !.paused = FALSE, !.bufferLevel = 60]
    /\ lastTimeRef = 0
    /\ lastCheckRef = now
    /\ stalledSinceRef = 0
    /\ stallCountRef \in ScoreStallCounts
    /\ totalBufferingTimeRef \in ScoreBufferingTimes
    /\ hmInterval = ArmedHmInterval
    /\ LET score == calculateScore(60, 0, stallCountRef, totalBufferingTimeRef)
       IN  health = [score |-> score,
                     level |-> HealthLevel(score),
                     issues |-> HealthIssues(60, 0, stallCountRef, FALSE),
                     recommendations |-> HealthRecommendations(60, 0, stallCountRef),
                     stallCount |-> stallCountRef,
                     bufferingTime |-> totalBufferingTimeRef,
                     lastStallTime |-> 0]
    /\ BwIdle
    /\ AbrIdle

NextScore ==
    \/ \E p \in {0, 1000}, paused \in BOOLEAN,
          b \in ScoreBufferLevels, r \in ScoreDroppedFrameRates : HmTick(p, paused, b, r)
    \/ Advance(1000, ScoreMaxElapsed)

SpecScore == InitScore /\ [][NextScore]_vars

\* The two controllers that offer reset(), side by side.
InitReset ==
    /\ InitEr(SmallRetryConfig)
    /\ \E stable \in BOOLEAN : InitHm(QuickStallConfig, stable)
    /\ BwIdle
    /\ AbrIdle

NextReset ==
    \/ /\ errorState.errorCount < ResetMaxErrors
       /\ \E e \in ErrorTexts, r \in RandomValues : recordError(e, r)
    \/ /\ attempts = <<>>
       /\ attemptRecovery
    \/ RetryTimerFires
    \/ \E i \in 1..MaxAttempts, th \in Thrown : RecoveryFails(i, th)
    \/ reset
    \/ ErRender
    \/ Advance(1, ErMaxElapsed)
    \/ HmAttach
    \/ \E p \in {0, 1000}, b \in {7, 60} : HmTick(p, FALSE, b, 0)
    \/ resetHealth
    \/ /\ hmInterval.live
       /\ hmInterval.due > now
       /\ Advance(hmInterval.due - now, ResetMaxElapsed)

SpecReset == InitReset /\ [][NextReset]_vars

\* The bandwidth estimator over a few seconds: batches of samples, the
\* bitrates and the trend.
InitBandwidth ==
    /\ InitEr(SmallRetryConfig)
    /\ HmIdle
    /\ \E observer \in BOOLEAN : InitBw(observer)
    /\ AbrIdle

NextBandwidth ==
    \/ /\ bwCallbacks < BwMaxCallbacks
       /\ \E entries \in EntryBatches : BwObserve(entries)
    \/ BwTick
    \/ BwUnmount
    \/ Advance(1000, BwMaxElapsed)

SpecBandwidth == InitBandwidth /\ [][NextBandwidth]_vars

\* The sample window over more than its 30 seconds.
NextWindow ==
    \/ /\ bwCallbacks < WindowMaxCallbacks
       /\ \E b \in SampleBytes : BwObserve(<<b>>)
    \/ BwTick
    \/ BwUnmount
    \/ Advance(2000, WindowMaxElapsed)

SpecWindow == InitBandwidth /\ [][NextWindow]_vars

\* The estimator second by second over more than the 30 seconds of the
\* window, with a stretch during which the page's timers are held back:
\* what stays published when the samples run out.
NextStale ==
    \/ /\ bwCallbacks < StaleMaxCallbacks
       /\ \E b \in SampleBytes : BwObserve(<<b>>)
    \/ BwTick
    \/ BwUnmount
    \/ Advance(1000, StaleMaxElapsed)
    \/ BwThrottled(30000, StaleMaxElapsed)

SpecStale == InitBandwidth /\ [][NextStale]_vars

\* The adaptive-bitrate engine, with the default configuration and with one
\* that settles within a decision period, each passed as a stable object or
\* as a new object on every render.
InitAbrSpec ==
    /\ InitEr(SmallRetryConfig)
    /\ HmIdle
    /\ BwIdle
    /\ \E cfg \in {DefaultAbrConfig, FastAbrConfig}, stable \in BOOLEAN :
          InitAbr(cfg, stable)

NextAbr ==
    \/ /\ abrInputs < AbrMaxInputs
       /\ \E t \in Telemetry : AbrPropsChange(t)
    \/ AbrTick
    \/ AbrSettle
    \/ AbrRender
    \/ /\ abrInputs < AbrMaxInputs
       /\ \E q \in ManualChoices : setManualQuality(q)
    \/ AbrUnmount
    \/ Advance(1000, AbrMaxElapsed)

SpecAbr == InitAbrSpec /\ [][NextAbr]_vars

\* The engine over an unbounded time, the telemetry changing a few times:
\* every timer callback runs when it is due and every render that is due
\* takes place.
\* The run is followed until the ticks have rejected LiveMaxStableTicks
\* switches (stableCountRef grows with every rejected tick).
AbrTickLive ==
    /\ stableCountRef < LiveMaxStableTicks
    /\ AbrTick

NextAbrLive ==
    \/ /\ abrInputs < AbrMaxInputs
       /\ \E t \in Telemetry : AbrPropsChange(t)
    \/ AbrTickLive
    \/ AbrSettle
    \/ AbrRender
    \/ AbrElapse(1000)
    \/ AbrUnmount

SpecAbrLive ==
    /\ InitAbrSpec
    /\ [][NextAbrLive]_vars
    /\ WF_vars(AbrTickLive)
    /\ WF_vars(AbrSettle)
    /\ WF_vars(AbrRender)
    /\ WF_vars(AbrElapse(1000))

\* The switch gate on telemetry from both sides of its thresholds.  The
\* engine starts right after a render with new arguments (the interval has
\* just been restarted): any current quality, a hysteresis counter that the
\* ticks since the last switch can have produced, and, for a stable config,
\* a shouldSwitch that may still hold an older currentBandwidth.
InitGate ==
    /\ InitEr(SmallRetryConfig)
    /\ HmIdle
    /\ BwIdle
    /\ \/ /\ abrConfig = FastAbrConfig
          /\ abrStable = TRUE
          /\ gateBandwidth \in GateBandwidths
          /\ \E age \in {0, 1000, 4000} :
                /\ lastSwitchTimeRef = IF age = 0 THEN 0 ELSE now - age
                /\ switchCountRef = IF age = 0 THEN 0 ELSE 1
                /\ stableCountRef \in 0..(IF age = 0 THEN 2 ELSE age \div 2000)
       \/ /\ abrConfig = DefaultAbrConfig
          /\ abrStable = FALSE
          /\ gateBandwidth \in GateBandwidths
          /\ lastSwitchTimeRef = 0
          /\ switchCountRef = 0
          /\ stableCountRef \in 0..2
    /\ abrMounted = TRUE
    /\ abrProps \in [currentBandwidth : GateBandwidths, bufferLevel : GateBufferLevels,
                      healthScore : GateHealthScores]
    /\ ~abrStable => gateBandwidth = abrProps.currentBandwidth
    /\ \E q \in {NoQuality} \cup {Ladder[i] : i \in DOMAIN Ladder} :
          /\ abrState = [InitialAbrState EXCEPT !.currentQuality = q,
                                                !.switchCount = switchCountRef]
          /\ abrEffectQuality = q
    /\ adaptationTimer = None
    /\ abrInterval = [live |-> TRUE, due |-> now + 2000]
    /\ abrRenderDue = FALSE
    /\ abrInputs = 0
    /\ abrCandidate = NoQuality

NextGate ==
    \/ AbrTick
    \/ AbrSettle
    \/ AbrRender
    \/ Advance(1000, GateMaxElapsed)

SpecGate == InitGate /\ [][NextGate]_vars

\* ======================================================================
\* Properties of the error-recovery controller
\* ======================================================================

\* C2: whenever the published errorCount has reached maxRetries, canRetry is
\* false and an attemptRecovery call is rejected at once: its promise is
\* rejected, neither the retry timer nor the global-timeout guard is touched,
\* and its action is never invoked.  The same holds whenever more than
\* globalTimeout has elapsed since recoveryStartTime, whatever the error count.
C2_CeilingsReject ==
    /\ [](erView.errorCount >= erConfig.maxRetries => ~canRetry)
    /\ [](\A i \in DOMAIN attempts :
            ~attempts[i].accepted =>
               /\ attempts[i].outcome = "rejected"
               /\ attempts[i].invoked = 0
               /\ ~attempts[i].running)
    /\ [][(/\ Len(attempts') = Len(attempts) + 1
           /\ \/ erView.errorCount >= erConfig.maxRetries
              \/ /\ erView.recoveryStartTime # 0
                 /\ now - erView.recoveryStartTime > erConfig.globalTimeout)
          => /\ ~attempts'[Len(attempts')].accepted
             /\ attempts'[Len(attempts')].outcome = "rejected"
             /\ retryTimer' = retryTimer
             /\ globalTimer' = globalTimer]_vars

\* C2 witness: calls were rejected by each of the two ceilings
C2_Witness ==
    /\ Len(attempts) = 2
    /\ ~attempts[1].accepted
    /\ ~attempts[2].accepted
    /\ erTimedOut
    /\ erView.errorCount >= erConfig.maxRetries

\* C4 (as claimed): an accepted attempt keeps its global-timeout guard armed
\* until its promise settles, so that an action that has not resolved by the
\* deadline is force-failed.  Attempts that the caller itself cancelled (by
\* reset, forceStop, unmount or a later attemptRecovery) are left out.
C4_GuardStaysArmed ==
    \A i \in DOMAIN attempts :
       (attempts[i].accepted /\ attempts[i].outcome = "pending"
                             /\ ~attempts[i].cancelled)
          => IF globalTimer.live THEN globalTimer.id = i ELSE FALSE

\* C5 (as claimed): once the episode has hit the global timeout it stays
\* failed until reset(): no recovery action is invoked and the error state
\* is not put back to the success state.
C5_TimeoutIsTerminal ==
    [][(erTimedOut /\ erTimedOut')
         => /\ \A i \in DOMAIN attempts : attempts'[i].invoked = attempts[i].invoked
            /\ errorState.errorCount > 0 => errorState'.errorCount > 0
            /\ errorState.recoveryStartTime # 0 => errorState'.recoveryStartTime # 0]_vars

\* C6 (as claimed): no attempt is silently dropped: a promise that is still
\* pending has something left that will settle it (its retry timer, its
\* running action or its global-timeout guard).
C6_NoAttemptDropped ==
    \A i \in DOMAIN attempts :
       attempts[i].outcome = "pending"
          => \/ attempts[i].running
             \/ IF retryTimer.live THEN retryTimer.id = i ELSE FALSE
             \/ IF globalTimer.live THEN globalTimer.id = i ELSE FALSE

\* C7 (as claimed): after the unmount cleanup no callback of the controller
\* changes its state: errorState, the timers and the promises stay as they are.
C7_QuietAfterTeardown ==
    [][~erMounted =>
         /\ errorState' = errorState
         /\ retryTimer' = retryTimer
         /\ globalTimer' = globalTimer
         /\ \A i \in DOMAIN attempts : attempts'[i].outcome = attempts[i].outcome]_vars

\* C8: after n recordError calls since the last reset() or successful recovery
\* errorCount = n and nextRetryDelay lies in [0.75 d, 1.25 d], where
\* d = min(baseDelay * 2^n, maxDelay); with the default configuration
\* and n = 5 it lies in [2400, 4000].
C8_BackoffWithinJitter ==
    /\ errorState.errorCount = erRecorded
    /\ erRecorded >= 1 =>
         LET p == erConfig.baseDelay * Pow2(erRecorded)
             d == IF p < erConfig.maxDelay THEN p ELSE erConfig.maxDelay
         IN  /\ 4 * errorState.nextRetryDelay >= 3 * d
             /\ 4 * errorState.nextRetryDelay <= 5 * d
    /\ (erRecorded = 5 /\ erConfig.baseDelay = 100 /\ erConfig.maxDelay = 10000)
         => (errorState.nextRetryDelay >= 2400 /\ errorState.nextRetryDelay <= 4000)

\* C8 witness: five errors recorded under the default configuration, with a
\* jittered delay different from the pre-jitter delay 3200
C8_Witness ==
    /\ erConfig = DefaultRetryConfig
    /\ erRecorded = 5
    /\ errorState.errorCount = 5
    /\ errorState.nextRetryDelay > 3200

C10_FailureKeepsCounters ==
    /\ [](\A i \in DOMAIN attempts : attempts[i].invoked <= 1)
    /\ [][\A i \in 1..MaxAttempts, th \in Thrown :
            RecoveryFails(i, th) =>
               /\ errorState'.lastError =
                     (IF th = "nonError" THEN "Unknown error" ELSE "reload failed")
               /\ ~errorState'.isRecovering
               /\ attempts'[i].outcome = "rejected"
               /\ errorState'.errorCount = errorState.errorCount
               /\ errorState'.nextRetryDelay = errorState.nextRetryDelay
               /\ errorState'.recoveryStartTime = errorState.recoveryStartTime
               /\ retryTimer' = retryTimer
               /\ ~globalTimer'.live
               /\ \A j \in DOMAIN attempts : attempts'[j].invoked = attempts[j].invoked]_vars

\* C10 witness: an action failed after two errors were recorded; the counters
\* still hold what recordError left
C10_Witness ==
    \E i \in DOMAIN attempts :
       /\ attempts[i].outcome = "rejected"
       /\ attempts[i].invoked = 1
       /\ ~attempts[i].running
       /\ errorState.lastError = "reload failed"
       /\ errorState.errorCount = 2
       /\ errorState.recoveryStartTime # 0

\* C11 (as claimed): forceStop() cancels both timers and clears isRecovering,
\* leaving errorCount, lastError, nextRetryDelay and recoveryStartTime as they
\* are; after reset() or forceStop(), and until the caller's next call, no
\* recovery action of an earlier attempt is invoked and the error state that
\* the call left is not modified.
C11_StopIsFinal ==
    /\ [][forceStop =>
            /\ ~retryTimer'.live
            /\ ~globalTimer'.live
            /\ ~errorState'.isRecovering
            /\ errorState'.errorCount = errorState.errorCount
            /\ errorState'.lastError = errorState.lastError
            /\ errorState'.nextRetryDelay = errorState.nextRetryDelay
            /\ errorState'.recoveryStartTime = errorState.recoveryStartTime]_vars
    /\ [][(erStopped /\ erStopped' /\ ~reset /\ ~forceStop) =>
            /\ \A i \in DOMAIN attempts : attempts'[i].invoked = attempts[i].invoked
            /\ errorState' = errorState]_vars

\* C12: reset() of the error-recovery controller and reset() of the health
\* monitor restore every counter to its initial value whatever the state they
\* are called in, and a second reset() right after the first changes nothing.
C12_ResetRestoresInitial ==
    /\ [][reset =>
            /\ errorState' = [errorCount |-> 0, lastError |-> "null",
                              isRecovering |-> FALSE,
                              nextRetryDelay |-> erConfig.baseDelay,
                              recoveryStartTime |-> 0]
            /\ ~retryTimer'.live
            /\ ~globalTimer'.live]_vars
    /\ [][resetHealth =>
            /\ stallCountRef' = 0
            /\ totalBufferingTimeRef' = 0
            /\ stalledSinceRef' = 0
            /\ health'.score = 100
            /\ health'.level = "excellent"
            /\ health'.stallCount = 0
            /\ health'.bufferingTime = 0
            /\ health'.lastStallTime = 0
            /\ health'.issues = {}]_vars
    /\ [][(reset /\ erStopped /\ errorState.errorCount = 0
                 /\ errorState.lastError = "null" /\ errorState.recoveryStartTime = 0
                 /\ ~retryTimer.live /\ ~globalTimer.live)
            => (errorState' = errorState /\ retryTimer' = retryTimer
                                         /\ globalTimer' = globalTimer)]_vars
    /\ [][(resetHealth /\ health.score = 100 /\ health.stallCount = 0
                       /\ health.bufferingTime = 0 /\ health.issues = {}
                       /\ stallCountRef = 0 /\ totalBufferingTimeRef = 0
                       /\ stalledSinceRef = 0)
            => (health' = health /\ stallCountRef' = stallCountRef
                                 /\ totalBufferingTimeRef' = totalBufferingTimeRef
                                 /\ stalledSinceRef' = stalledSinceRef)]_vars

\* C12 witness: both controllers were reset out of a used state: the last
\* render still shows a recorded error and the monitor has seen a stalled
\* tick with a low buffer
C12_Witness ==
    /\ erStopped
    /\ errorState = InitialErrorState(erConfig)
    /\ erView.errorCount > 0
    /\ health = InitialHealth
    /\ stallCountRef = 0
    /\ video.bufferLevel = 7
    /\ ~video.paused
    /\ video.currentTime = 0
    /\ lastCheckRef > StartTime

\* C15: the health score published by a tick lies in [0, 100] for every
\* combination of inputs, a negative buffer level and a dropped-frame rate
\* above 100% included.
C15_ScoreInRange ==
    /\ health.score >= 0
    /\ health.score <= 100

\* C15 witness: a tick that read a negative buffer level and a dropped-frame
\* rate of 150% with nine stalls on record published the score 0
C15_Witness ==
    /\ video.bufferLevel < 0
    /\ video.droppedFrameRate > 1000
    /\ health.stallCount = 9
    /\ health.score = 0
    /\ lastCheckRef > StartTime

\* C16: the score a tick publishes is 100 minus the sum of the four tier
\* deductions (buffer 40/25/15/5/0, dropped frames 30/15/5/0, stall count
\* 20/10/5/0, buffering ratio 10/5/0), and the level follows from the score
\* alone: critical below 30, warning below 60, good below 85, else excellent.
\* A buffer of 0.3 s alone gives 60 and good; a buffer of 6 s with 6% dropped
\* frames, 9 stalls and a buffering ratio of 0.4 gives 40 and warning.
C16_ScoreIsSumOfTiers ==
    [][lastCheckRef' # lastCheckRef =>
         LET b == video'.bufferLevel
             r == video'.droppedFrameRate
             c == health'.stallCount
             t == health'.bufferingTime
             e == now - lastCheckRef
             bufferTier == IF b < 5 THEN 40 ELSE IF b < 10 THEN 25
                           ELSE IF b < 30 THEN 15 ELSE IF b < 50 THEN 5 ELSE 0
             dropTier == IF r > 50 THEN 30 ELSE IF r > 20 THEN 15
                         ELSE IF r > 5 THEN 5 ELSE 0
             stallTier == IF c > 8 THEN 20 ELSE IF c > 4 THEN 10
                          ELSE IF c > 1 THEN 5 ELSE 0
             ratioTier == IF 10 * t > 3 * e THEN 10
                          ELSE IF 100 * t > 15 * e THEN 5 ELSE 0
         IN  /\ health'.score = 100 - (bufferTier + dropTier + stallTier + ratioTier)
             /\ health'.level = (IF health'.score < 30 THEN "critical"
                                 ELSE IF health'.score < 60 THEN "warning"
                                 ELSE IF health'.score < 85 THEN "good"
                                 ELSE "excellent")
             /\ (b = 3 /\ r = 0 /\ c = 0 /\ t = 0)
                  => (health'.score = 60 /\ health'.level = "good")
             /\ (b = 60 /\ r = 60 /\ c = 9 /\ 10 * t = 4 * e)
                  => (health'.score = 40 /\ health'.level = "warning")]_vars

\* C16 witness: the second example of the claim was published by a tick
C16_Witness ==
    /\ video.bufferLevel = 60
    /\ video.droppedFrameRate = 60
    /\ health.stallCount = 9
    /\ health.bufferingTime = 400
    /\ health.score = 40
    /\ health.level = "warning"
    /\ lastCheckRef = StartTime + 1000

\* C17: stallCount grows by exactly one on the tick that enters a stall and
\* stays as it is on the later stalled ticks of the same episode; a tick that
\* sees the position advance closes the episode, so that the next stall is
\* counted again; every stalled tick adds the time since the previous tick to
\* bufferingTime, and no other tick changes the counters.
C17_OncePerEpisode ==
    /\ [](stalledSinceRef # 0 => stallCountRef >= 1)
    /\ [][lastCheckRef' # lastCheckRef =>
            LET elapsed == now - lastCheckRef
                stalledTick == /\ ~video'.paused
                               /\ video'.currentTime = lastTimeRef
                               /\ elapsed > hmConfig.stallThreshold
                inEpisode == stalledSinceRef # 0
            IN  /\ (stalledTick /\ ~inEpisode) =>
                      (stallCountRef' = stallCountRef + 1 /\ stalledSinceRef' # 0)
                /\ (stalledTick /\ inEpisode) =>
                      (stallCountRef' = stallCountRef /\ stalledSinceRef' # 0)
                /\ ~stalledTick => stallCountRef' = stallCountRef
                /\ video'.currentTime > lastTimeRef => stalledSinceRef' = 0
                /\ totalBufferingTimeRef' =
                      totalBufferingTimeRef + (IF stalledTick THEN elapsed ELSE 0)
                /\ health'.stallCount = stallCountRef'
                /\ health'.bufferingTime = totalBufferingTimeRef']_vars
    /\ [][(lastCheckRef' = lastCheckRef /\ ~resetHealth) =>
            /\ stallCountRef' = stallCountRef
            /\ totalBufferingTimeRef' = totalBufferingTimeRef
            /\ stalledSinceRef' = stalledSinceRef]_vars

\* C17 witness: three stalled ticks in two episodes: the counter reads 2 and
\* the buffering time is the sum of the three tick intervals
C17_Witness ==
    /\ stallCountRef = 2
    /\ health.stallCount = 2
    /\ totalBufferingTimeRef = 3000
    /\ stalledSinceRef # 0

\* C18: right after the observer callback has inserted a sample and pruned
\* the window at time now, every retained sample satisfies
\* now - timestamp < 30 s.
C18_PrunedAfterInsertion ==
    [][samplesRef' # samplesRef =>
         \A i \in DOMAIN samplesRef' : now' - samplesRef'[i].time < 30000]_vars

\* C18 witness: an insertion pruned the window: an average was published from
\* at least two samples, and 30 s later the window holds the new sample only
C18_Witness ==
    /\ bandwidth.averageBitrate.num > 0
    /\ Len(samplesRef) = 1
    /\ samplesRef[1].time = now
    /\ now - StartTime >= 30000

\* C19: at every tick that publishes an estimate the trend is increasing iff
\* the window holds at least 10 samples and the rate of the newer half exceeds
\* 1.3 times the rate of the older half, decreasing iff it holds at least 10
\* samples and the newer rate is below 0.7 times the older rate, and stable
\* otherwise, in particular with fewer than 10 samples.  The rate of a half
\* whose samples all carry the same timestamp is 0.
C19_TrendIffHalvesDiffer ==
    [][(bwInterval' # bwInterval /\ bwInterval'.live /\ Len(samplesRef) >= 2) =>
         LET n == Len(samplesRef)
             mid == n \div 2
             olderMs == samplesRef[mid].time - samplesRef[1].time
             newerMs == samplesRef[n].time - samplesRef[mid + 1].time
             \* kilobits of each half (the sample sizes are multiples of 125 bytes)
             olderBits == IF olderMs > 0
                          THEN (8 * SumBytes(SubSeq(samplesRef, 1, mid))) \div 1000
                          ELSE 0
             newerBits == IF newerMs > 0
                          THEN (8 * SumBytes(SubSeq(samplesRef, mid + 1, n))) \div 1000
                          ELSE 0
             olderDiv == IF olderMs > 0 THEN olderMs ELSE 1
             newerDiv == IF newerMs > 0 THEN newerMs ELSE 1
         IN  /\ bandwidth'.trend \in {"stable", "increasing", "decreasing"}
             /\ bandwidth'.trend = "increasing" <=>
                  (n >= 10 /\ 10 * newerBits * olderDiv > 13 * olderBits * newerDiv)
             /\ bandwidth'.trend = "decreasing" <=>
                  (n >= 10 /\ 10 * newerBits * olderDiv < 7 * olderBits * newerDiv)
             /\ n < 10 => bandwidth'.trend = "stable"]_vars

\* C19 witness: a tick published a decreasing trend from at least 10 samples
C19_Witness ==
    /\ bandwidth.trend = "decreasing"
    /\ Len(samplesRef) >= 10
    /\ bwInterval.live

\* C20: the average bitrate a tick publishes is non-negative and equals
\* totalBytes * 8 / (windowSeconds * 1000000), where totalBytes is the sum of
\* the bytes of all retained samples and windowSeconds the time between the
\* oldest and the newest of them; it is 0 when that time is 0.
C20_AverageIsBytesOverSpan ==
    [][(bwInterval' # bwInterval /\ bwInterval'.live /\ Len(samplesRef) >= 2) =>
         LET totalBytes == SumBytes(samplesRef)
             windowMs == samplesRef[Len(samplesRef)].time - samplesRef[1].time
             average == bandwidth'.averageBitrate
         IN  /\ average.den > 0
             /\ average.num >= 0
             /\ IF windowMs > 0
                THEN average.num * (windowMs * 1000) = (totalBytes * 8) * average.den
                ELSE average.num = 0]_vars

\* C20 witness: a tick published a positive average over a window of six
\* samples spanning 3 seconds
C20_Witness ==
    /\ Len(samplesRef) = 6
    /\ samplesRef[6].time - samplesRef[1].time = 3000
    /\ bandwidth.averageBitrate.num > 0
    /\ bandwidth.averageBitrate.num * 3000000 =
          SumBytes(samplesRef) * 8 * bandwidth.averageBitrate.den

\* ----------------------------------------------------------------------
\* C1: two committed automatic switches are never less than
\* minSwitchInterval apart.  A commit happens only when no switch was
\* committed before or the last one is at least minSwitchInterval old, and it
\* records its own time; a decision tick that runs while the last switch is
\* younger than minSwitchInterval accepts nothing (no target, no settle timer).
C1_SwitchesSpacedApart ==
    /\ [][switchCountRef' # switchCountRef =>
            /\ \/ switchCountRef = 0
               \/ now - lastSwitchTimeRef >= abrConfig.minSwitchInterval
            /\ lastSwitchTimeRef' = now]_vars
    /\ [][(AbrTick /\ now - lastSwitchTimeRef < abrConfig.minSwitchInterval) =>
            /\ ~abrState'.isAdapting
            /\ abrState'.targetQuality = NoQuality
            /\ ~adaptationTimer'.live]_vars

\* a second automatic switch has been committed
C1_Witness ==
    /\ switchCountRef = 2
    /\ lastSwitchTimeRef = now

\* ----------------------------------------------------------------------
\* C3: a decision tick whose gate accepts the candidate sets isAdapting and
\* targetQuality = candidate and arms a settle timer of switchThreshold
\* seconds for that candidate; the expiry of the timer sets currentQuality to
\* the candidate, clears targetQuality and isAdapting, adds exactly one to
\* switchCount, zeroes the hysteresis counter and records the time.
C3_AcceptThenCommit ==
    /\ [][(AbrTick /\ shouldSwitch(abrState.currentQuality, determineOptimalQuality).should) =>
            /\ abrState'.isAdapting
            /\ abrState'.targetQuality = determineOptimalQuality
            /\ abrState'.currentQuality = abrState.currentQuality
            /\ adaptationTimer'.live
            /\ adaptationTimer'.due = now + abrConfig.switchThreshold * 1000
            /\ adaptationTimer'.quality = determineOptimalQuality]_vars
    /\ [][AbrSettle =>
            /\ abrState'.currentQuality = adaptationTimer.quality
            /\ abrState'.targetQuality = NoQuality
            /\ ~abrState'.isAdapting
            /\ abrState'.switchCount = abrState.switchCount + 1
            /\ switchCountRef' = switchCountRef + 1
            /\ stableCountRef' = 0
            /\ lastSwitchTimeRef' = now]_vars

\* the first accepted candidate (720p for the initial telemetry) was committed
C3_Witness ==
    /\ abrState.switchCount = 1
    /\ abrState.currentQuality = Ladder[2]
    /\ lastSwitchTimeRef = now
    /\ abrRenderDue

\* ----------------------------------------------------------------------
\* C13: setManualQuality(q) makes q the current quality whatever the
\* telemetry and however recent the last switch, clears targetQuality and
\* isAdapting, sets the reason to "Manuel" and zeroes the hysteresis counter.
C13_ManualOverride ==
    [][\A q \in ManualChoices :
          setManualQuality(q) =>
             /\ abrState'.currentQuality = q
             /\ abrState'.targetQuality = NoQuality
             /\ ~abrState'.isAdapting
             /\ abrState'.adaptationReason = "Manuel"
             /\ stableCountRef' = 0]_vars

\* 1080p was chosen by hand inside the minimum switch interval, on telemetry
\* for which the algorithm picks the lowest rung, after rejected ticks had
\* raised the hysteresis counter
C13_Witness ==
    /\ abrState.adaptationReason = "Manuel"
    /\ abrState.currentQuality = Ladder[3]
    /\ determineOptimalQuality = Ladder[1]
    /\ switchCountRef = 1
    /\ now - lastSwitchTimeRef < abrConfig.minSwitchInterval
    /\ abrCandidate # NoQuality
    /\ stableCountRef = 0

\* ----------------------------------------------------------------------
\* C14: the candidate of every decision tick is the highest rung whose
\* bandwidth is at most currentBandwidth * safetyFactor * m, with m = 0.7
\* below bufferTargetDown, 0.85 below bufferTargetUp and 1.0 otherwise, and
\* the lowest rung when no rung fits; for 5 Mbps, health 90 and a 10 s buffer
\* it is the 3 Mbps rung.  (Both sides are multiplied by 10^7: kbps times two
\* factors in hundredths against bps times 10.)
C14_CandidateIsBestFit ==
    [][AbrTick =>
         LET factor == IF abrProps.healthScore > 80 THEN 90
                       ELSE IF abrProps.healthScore > 60 THEN 75 ELSE 60
             m == IF abrProps.bufferLevel < abrConfig.bufferTargetDown THEN 70
                  ELSE IF abrProps.bufferLevel < abrConfig.bufferTargetUp THEN 85
                  ELSE 100
             target == abrProps.currentBandwidth * factor * m
             fits(i) == Ladder[i].bandwidth * 10 <= target
         IN  /\ \E i \in DOMAIN Ladder :
                  /\ abrCandidate' = Ladder[i]
                  /\ \/ /\ fits(i)
                        /\ \A j \in DOMAIN Ladder :
                              fits(j) => Ladder[j].bandwidth <= Ladder[i].bandwidth
                     \/ /\ \A j \in DOMAIN Ladder : ~fits(j)
                        /\ \A j \in DOMAIN Ladder :
                              Ladder[i].bandwidth <= Ladder[j].bandwidth
             /\ abrProps = InitialTelemetry => abrCandidate' = Ladder[2]]_vars

\* a tick chose 720p for 7 Mbps with a half-full buffer (target 5.355 Mbps)
C14_Witness ==
    /\ abrCandidate = Ladder[2]
    /\ abrRenderDue
    /\ abrState.adaptationReason # "Manuel"
    /\ abrProps.currentBandwidth = 7000
    /\ abrProps.bufferLevel = 50

\* ----------------------------------------------------------------------
\* C21: when the observer could not be created, the estimator publishes a
\* static estimate from the table keyed by the network class, with a stable
\* trend: once a tick has run, the published bitrate is one of the table's.
C21_StaticFallback ==
    (bwMounted /\ ~bwObserver /\ bwInterval.live /\ bwInterval.due > StartTime + 2000) =>
        /\ bandwidth.trend = "stable"
        /\ \E e \in EffectiveTypes :
              bandwidth.currentBitrate.num =
                 estimatedBandwidth(e) * bandwidth.currentBitrate.den

\* ----------------------------------------------------------------------
\* C22: with a current quality and a candidate of greater bandwidth, a
\* decision tick accepts exactly when bufferLevel >= bufferTargetUp,
\* healthScore >= 70, the hysteresis counter is at least 2 and
\* minSwitchInterval has elapsed since the last switch.
C22_UpgradeConditions ==
    [][(/\ AbrTick
        /\ abrState.currentQuality # NoQuality
        /\ determineOptimalQuality.bandwidth > abrState.currentQuality.bandwidth) =>
          ((abrState'.isAdapting /\ adaptationTimer'.live) <=>
              /\ abrProps.bufferLevel >= abrConfig.bufferTargetUp
              /\ abrProps.healthScore >= 70
              /\ stableCountRef >= 2
              /\ now - lastSwitchTimeRef >= abrConfig.minSwitchInterval)]_vars

\* an upgrade was accepted with the buffer exactly at bufferTargetUp, health
\* exactly 70 and the counter at 2
C22_Witness ==
    /\ abrState.isAdapting
    /\ abrRenderDue
    /\ abrState.currentQuality # NoQuality
    /\ abrState.targetQuality.bandwidth > abrState.currentQuality.bandwidth
    /\ abrProps.bufferLevel = abrConfig.bufferTargetUp
    /\ abrProps.healthScore = 70
    /\ stableCountRef = 2

\* ----------------------------------------------------------------------
\* C23: the hysteresis counter is not advanced by a tick that rejected a
\* switch attempt (a candidate other than the current quality) for a reason
\* other than the hysteresis itself, and it is 0 after every commit and
\* after every tick that accepted a downgrade.
C23_CounterCountsStableTicks ==
    /\ [][AbrTick =>
            LET cur == abrState.currentQuality
                cand == determineOptimalQuality
            IN  /\ (/\ cur # NoQuality
                    /\ cand.bandwidth # cur.bandwidth
                    /\ ~abrState'.isAdapting
                    /\ abrState'.adaptationReason # "Conditions pas encore stables") =>
                       stableCountRef' = stableCountRef
                /\ (/\ cur # NoQuality
                    /\ cand.bandwidth < cur.bandwidth
                    /\ abrState'.isAdapting) =>
                       stableCountRef' = 0]_vars
    /\ [][AbrSettle => stableCountRef' = 0]_vars

\* ----------------------------------------------------------------------
\* C24: a candidate lower than the current quality that neither the
\* critical-buffer rule nor the low-health rule covers is accepted only if
\* the current rung's bandwidth exceeds 1.2 times the estimated bandwidth;
\* a rejected tick keeps the current quality.  (bps * 10 against kbps * 12
\* * 1000.)
C24_DowngradeNeedsMargin ==
    [][(/\ AbrTick
        /\ abrState.currentQuality # NoQuality
        /\ determineOptimalQuality.bandwidth < abrState.currentQuality.bandwidth
        /\ abrProps.bufferLevel >= abrConfig.bufferTargetDown
        /\ abrProps.healthScore >= 50) =>
          /\ abrState'.currentQuality = abrState.currentQuality
          /\ abrState'.isAdapting =>
                abrState.currentQuality.bandwidth * 10 >
                   abrProps.currentBandwidth * 12 * 1000]_vars

\* ----------------------------------------------------------------------
\* C25: once minSwitchInterval has elapsed and a current quality exists, a
\* tick whose candidate is lower than the current quality accepts it when
\* bufferLevel < bufferTargetDown (reason: buffer critical) or healthScore <
\* 50 (reason: health low), whatever the hysteresis counter and the bandwidth.
C25_UrgentDowngrade ==
    [][(/\ AbrTick
        /\ now - lastSwitchTimeRef >= abrConfig.minSwitchInterval
        /\ abrState.currentQuality # NoQuality
        /\ determineOptimalQuality.bandwidth < abrState.currentQuality.bandwidth
        /\ \/ abrProps.bufferLevel < abrConfig.bufferTargetDown
           \/ abrProps.healthScore < 50) =>
          /\ abrState'.isAdapting
          /\ abrState'.targetQuality = determineOptimalQuality
          /\ adaptationTimer'.live
          /\ abrState'.adaptationReason =
                IF abrProps.bufferLevel < abrConfig.bufferTargetDown
                THEN "Buffer critique - downgrade urgent"
                ELSE "Sante faible - downgrade recommande"]_vars

\* a downgrade was accepted for low health alone, with the counter at 0 and
\* an estimate that affords the current rung with the 20% margin
C25_Witness ==
    /\ abrState.isAdapting
    /\ abrRenderDue
    /\ abrState.adaptationReason = "Sante faible - downgrade recommande"
    /\ abrProps.bufferLevel >= abrConfig.bufferTargetDown
    /\ stableCountRef = 0
    /\ gateBandwidth * 10000 >= abrState.currentQuality.bandwidth * 12
    /\ abrProps.currentBandwidth * 10000 >= abrState.currentQuality.bandwidth * 12

\* ----------------------------------------------------------------------
\* C26: the candidate of a tick is computed with safety factor 0.9 for
\* healthScore >= 80, 0.75 for 60 <= healthScore < 80 and 0.6 below 60.
C26_SafetyFactorTiers ==
    [][AbrTick =>
         LET factor == IF abrProps.healthScore >= 80 THEN 90
                       ELSE IF abrProps.healthScore >= 60 THEN 75 ELSE 60
             m == IF abrProps.bufferLevel < abrConfig.bufferTargetDown THEN 70
                  ELSE IF abrProps.bufferLevel < abrConfig.bufferTargetUp THEN 85
                  ELSE 100
         IN  abrCandidate' =
                recommendQuality(abrProps.currentBandwidth * factor * m, Ladder)]_vars

\* ----------------------------------------------------------------------
\* C27: in every reachable state of the engine, targetQuality is non-null
\* only if isAdapting is true.
C27_TargetOnlyWhileAdapting ==
    abrState.targetQuality # NoQuality => abrState.isAdapting

\* a manual override arrived while a target was pending and cleared both
C27_Witness ==
    /\ abrState.adaptationReason = "Manuel"
    /\ abrCandidate # NoQuality
    /\ abrState.targetQuality = NoQuality
    /\ ~abrState.isAdapting
    /\ adaptationTimer.live
    /\ switchCountRef = 1

\* ----------------------------------------------------------------------
\* C28: recordError sets recoveryStartTime to the current time when it is
\* unset and leaves it alone otherwise; failed actions, the global-timeout
\* guard and forceStop() leave it unchanged; it changes only from unset to
\* the current time, or to unset by a successful action or by reset().
C28_RecoveryClock ==
    /\ [][\A e \in ErrorTexts, r \in RandomValues :
            recordError(e, r) =>
               errorState'.recoveryStartTime =
                  (IF errorState.recoveryStartTime = 0 THEN now
                   ELSE errorState.recoveryStartTime)]_vars
    /\ [][(\/ \E i \in 1..MaxAttempts, th \in Thrown : RecoveryFails(i, th)
           \/ GlobalTimeoutFires
           \/ forceStop) =>
            errorState'.recoveryStartTime = errorState.recoveryStartTime]_vars
    /\ [][errorState'.recoveryStartTime # errorState.recoveryStartTime =>
            \/ /\ errorState.recoveryStartTime = 0
               /\ errorState'.recoveryStartTime = now
            \/ /\ errorState'.recoveryStartTime = 0
               /\ \/ reset
                  \/ \E i \in 1..MaxAttempts : RecoverySucceeds(i)]_vars

\* the clock of the first error is still there after a second error, the
\* guard's timeout and forceStop()
C28_Witness ==
    /\ errorState.recoveryStartTime = StartTime
    /\ now > StartTime
    /\ errorState.errorCount = 2
    /\ errorState.lastError = "Timeout global"
    /\ erStopped

\* ----------------------------------------------------------------------
\* C29: a tick is classified as stalled (it adds the elapsed time to the
\* buffering time and reports the interruption) exactly when the player is
\* not paused, the position is equal to or behind the one of the previous
\* tick, and more than stallThreshold has elapsed since the previous tick.
C29_StalledIffNoProgress ==
    [][lastCheckRef' # lastCheckRef =>
         LET elapsed == now - lastCheckRef
             classified == totalBufferingTimeRef' = totalBufferingTimeRef + elapsed
         IN  classified <=>
                /\ ~video'.paused
                /\ video'.currentTime <= lastTimeRef
                /\ elapsed > hmConfig.stallThreshold]_vars

\* ----------------------------------------------------------------------
\* C30: every sample a tick computes its estimate from is younger than 30 s
\* at that tick, and the retained samples are in non-decreasing order of
\* their timestamps.
C30_TickUsesFreshSamples ==
    /\ [](\A i, j \in DOMAIN samplesRef : i <= j => samplesRef[i].time <= samplesRef[j].time)
    /\ [][(BwTick /\ Len(samplesRef) >= 2) =>
            \A i \in DOMAIN samplesRef : now - samplesRef[i].time < 30000]_vars

\* ----------------------------------------------------------------------
\* C40 (as claimed): nextRetryDelay never exceeds maxDelay.
C40_DelayCapped ==
    errorState.nextRetryDelay <= erConfig.maxDelay

\* C40 (amended): the delay recordError computes is capped by maxDelay
\* before the jitter is added: the pre-jitter delay is at most maxDelay and
\* nextRetryDelay at most round(1.125 * maxDelay).
C40_DelayWithinJitterOfCap ==
    [][\A e \in ErrorTexts, r \in RandomValues :
         recordError(e, r) =>
            /\ exponentialDelay(erConfig, errorState'.errorCount) <= erConfig.maxDelay
            /\ 8 * errorState'.nextRetryDelay <= 9 * erConfig.maxDelay + 4]_vars

\* seven errors under the default configuration: the pre-jitter delay is the
\* cap and the jitter lifted the delay above it
C40_Witness ==
    /\ errorState.errorCount = 7
    /\ exponentialDelay(erConfig, 7) = erConfig.maxDelay
    /\ errorState.nextRetryDelay > erConfig.maxDelay

\* ----------------------------------------------------------------------
\* C35: between two resets of the controller (reset() or a successful
\* recovery) the recovery action is invoked at most maxRetries times,
\* whatever recordError and attemptRecovery calls the caller makes.
C35_InvocationsBounded ==
    erInvoked <= erConfig.maxRetries

\* ----------------------------------------------------------------------
\* C36: an attemptRecovery call made after recordError and before the next
\* render decides on the errorCount and recoveryStartTime that recordError
\* produced and schedules the retry after the nextRetryDelay it produced.
C36_UsesRecordedError ==
    [][(attemptRecovery /\ erRecorded >= 1 /\ erView # Captured(errorState)) =>
         LET accepted == attempts'[Len(attempts')].accepted
         IN  /\ accepted <=>
                  /\ errorState.errorCount < erConfig.maxRetries
                  /\ now - OrNow(errorState.recoveryStartTime) <= erConfig.globalTimeout
             /\ accepted => retryTimer'.due = now + errorState.nextRetryDelay]_vars

\* ----------------------------------------------------------------------
\* C37: isRecovering is true exactly while an accepted attempt is
\* outstanding, its retry timer pending or its action in flight.
C37_RecoveringIffOutstanding ==
    erMounted =>
      (errorState.isRecovering <=>
         (retryTimer.live \/ \E i \in DOMAIN attempts : attempts[i].running))

\* ----------------------------------------------------------------------
\* C33: a settle timer armed before setManualQuality(q) never commits after
\* it: while the manual override is the last update of the state (no
\* decision tick has run since), no switch is committed and currentQuality
\* and switchCount stay as the override left them.
C33_ManualCancelsSettle ==
    [][abrState.adaptationReason = "Manuel" =>
          /\ ~AbrSettle
          /\ (~\E q \in ManualChoices : setManualQuality(q)) =>
                /\ abrState'.currentQuality = abrState.currentQuality
                /\ abrState'.switchCount = abrState.switchCount]_vars

\* ----------------------------------------------------------------------
\* C34: while the engine is mounted, isAdapting is true if and only if a
\* settle timer is pending, also after the effect was cleaned up and run
\* again while a switch was settling.
C34_AdaptingIffTimerPending ==
    abrMounted => (abrState.isAdapting <=> adaptationTimer.live)

\* ----------------------------------------------------------------------
\* C31: after every tick at which fewer than 2 samples fall within the last
\* 2 seconds the published current bitrate is 0, also when the whole window
\* holds fewer than 2 samples.
C31_FewRecentSamplesPublishZero ==
    [][BwTick =>
         LET Recent(sample) == now - sample.time < 2000
         IN  Len(SelectSeq(samplesRef, Recent)) < 2 =>
                bandwidth'.currentBitrate.num = 0]_vars

\* ----------------------------------------------------------------------
\* C38: with the default configuration and ticks on schedule, a continuous
\* stall (not paused, the position never moving) is eventually detected:
\* the stall is counted and the active-stall issue is reported.
C38_StallDetected ==
    hmConfig = DefaultHealthConfig =>
       (<>[](hmMounted /\ hmInterval.live /\ ~video.paused /\ video.currentTime = 0)
          => <>(stallCountRef >= 1 /\ "Lecture interrompue" \in health.issues))

\* ----------------------------------------------------------------------
\* C39: once a single stall episode has ended and playback goes on with a
\* buffer of at least 5 s and no dropped frames, the score eventually
\* returns to 100 without reset().
C39_ScoreRecovers ==
    LET Recovered == /\ hmMounted
                     /\ hmInterval.live
                     /\ stallCountRef = 1
                     /\ stalledSinceRef = 0
                     /\ ~video.paused
                     /\ video.bufferLevel >= 50
                     /\ video.droppedFrameRate = 0
    IN  <>[]Recovered => <>(Recovered /\ health.score = 100)

\* ----------------------------------------------------------------------
\* C32: with the default timing (a tick every 2 s, a settle delay of 3 s),
\* if the gate keeps accepting the candidate on every tick, a switch is
\* eventually committed: currentQuality becomes the candidate and
\* switchCount increases.
C32_SwitchCommitted ==
    abrConfig = DefaultAbrConfig =>
       ([](/\ abrMounted
           /\ shouldSwitch(abrState.currentQuality, determineOptimalQuality).should)
          => <>(/\ abrState.switchCount >= 1
                /\ abrState.currentQuality = determineOptimalQuality))

====
